---------------------------- MODULE Spec2Model ----------------------------
(***************************************************************************)
(* A model of the ai-log-sync conversation index (Index.merge, Index.save, *)
(* Index.load, run_sync) of memorymuse/general-tools.                      *)
(*                                                                         *)
(* Conventions of the data model:                                          *)
(*   - an optional value (Python `x | None`) is a sequence of length at    *)
(*     most one: <<>> is None, <<v>> is the value v;                       *)
(*   - a datetime is a number of ticks, Resolution ticks to the second;    *)
(*     its ISO text is the sequence <<seconds>> or <<seconds, fraction>>,  *)
(*     as datetime.isoformat() leaves the fraction out when it is zero;    *)
(*   - a Python string built from pieces is the sequence of its pieces.    *)
(***************************************************************************)
EXTENDS Integers, Sequences, FiniteSets, TLC

(***************************************************************************)
(* Bounds of the model.                                                    *)
(***************************************************************************)
MaxTime == 1
MaxMsgs == 2
Resolution == 2
MaxRecords == 2

None == <<>>
Some(v) == <<v>>

Times == 0..MaxTime

(***************************************************************************)
(* models.py: Message, Conversation, IndexEntry                            *)
(***************************************************************************)
UserMsg == [role |-> "user", content |-> "question", timestamp |-> Some(0)]
AsstMsg == [role |-> "assistant", content |-> "answer", timestamp |-> None]
Msgs == {UserMsg, AsstMsg}

\* The non-empty message lists of at most MaxMsgs messages.
MsgLists == UNION {[1..n -> Msgs] : n \in 1..MaxMsgs}

Titles == {None, Some("Chat")}

\* An isoformat that drops the fraction of the second.
isoformat_seconds(t) == <<t \div Resolution>>

\* datetime.isoformat(): "....SS" when microsecond = 0, "....SS.ffffff" otherwise.
isoformat(t) ==
  IF t % Resolution = 0 THEN <<t \div Resolution>>
                        ELSE <<t \div Resolution, t % Resolution>>

\* datetime.fromisoformat(): reads both forms.
fromisoformat(s) ==
  IF Len(s) = 1 THEN s[1] * Resolution ELSE s[1] * Resolution + s[2]

\* Message.to_dict
Message_to_dict(m) ==
  [role |-> m.role,
   content |-> m.content,
   timestamp |-> IF m.timestamp # None THEN Some(isoformat(m.timestamp[1])) ELSE None]

\* A serialization that loses the list order (assistant messages first).
json_dumps_sorted(messages) ==
  LET ds == [i \in 1..Len(messages) |-> Message_to_dict(messages[i])] IN
  SelectSeq(ds, LAMBDA d : d.role = "assistant")
    \o SelectSeq(ds, LAMBDA d : d.role # "assistant")

\* json.dumps([...], sort_keys=True): the dicts in list order.
json_dumps(messages) == [i \in 1..Len(messages) |-> Message_to_dict(messages[i])]

\* hashlib.sha256(...).hexdigest()[:16], taken as collision-free on the
\* serialized texts of the model: the digest stands for the text it hashes.
sha256_prefix(text) == [algo |-> "sha256", of |-> text]

\* Conversation.message_count
message_count(conv) == Len(conv.messages)

\* Conversation.content_hash
content_hash(conv) == sha256_prefix(json_dumps(conv.messages))

\* The canonical id "{source}:{native_id}".
canonical_id(source, native_id) == <<source, ":", native_id>>

Conversation(source, native_id, updated_at, created_at, messages, title) ==
  [id |-> canonical_id(source, native_id),
   source |-> source,
   native_id |-> native_id,
   updated_at |-> updated_at,
   created_at |-> created_at,
   messages |-> messages,
   title |-> title]

\* An entry that leaves the title of the conversation out.
from_conversation_untitled(conv, raw_path) ==
  [id |-> conv.id,
   source |-> conv.source,
   native_id |-> conv.native_id,
   updated_at |-> conv.updated_at,
   created_at |-> conv.created_at,
   title |-> None,
   message_count |-> message_count(conv),
   content_hash |-> content_hash(conv),
   raw_path |-> raw_path]

\* IndexEntry.from_conversation
from_conversation(conv, raw_path) ==
  [id |-> conv.id,
   source |-> conv.source,
   native_id |-> conv.native_id,
   updated_at |-> conv.updated_at,
   created_at |-> conv.created_at,
   title |-> conv.title,
   message_count |-> message_count(conv),
   content_hash |-> content_hash(conv),
   raw_path |-> raw_path]

(***************************************************************************)
(* index.py: MergeResult, Index.merge                                      *)
(***************************************************************************)
NoReason == [isNone |-> TRUE, text |-> <<>>]
Reason(text) == [isNone |-> FALSE, text |-> text]
Part(text, args) == [text |-> text, args |-> args]

MergeResult(action, conversation_id, reason) ==
  [action |-> action, conversation_id |-> conversation_id, reason |-> reason]

\* ", ".join(parts)
RECURSIVE join(_)
join(parts) ==
  IF Len(parts) <= 1 THEN parts
  ELSE <<parts[1], Part(", ", <<>>)>> \o join(Tail(parts))

is_fresher_or_equal(conv, existing) == conv.updated_at >= existing.updated_at

is_fresher(conv, existing) == conv.updated_at > existing.updated_at

has_more_messages_or_equal(conv, existing) ==
  message_count(conv) >= existing.message_count

has_more_messages(conv, existing) == message_count(conv) > existing.message_count

\* A content test that lets the stored version win when it is the newer one.
content_changed_unless_older(conv, existing) ==
  /\ content_hash(conv) # existing.content_hash
  /\ conv.updated_at >= existing.updated_at

content_changed(conv, existing) == content_hash(conv) # existing.content_hash

\* A reason that cites the content change whenever the hash differs.
update_reason_always_content(conv, existing) ==
  join(
    (IF is_fresher(conv, existing)
       THEN <<Part("newer timestamp", isoformat(conv.updated_at))>> ELSE <<>>)
    \o
    (IF has_more_messages(conv, existing)
       THEN <<Part("more messages", <<message_count(conv), existing.message_count>>)>>
       ELSE <<>>)
    \o
    (IF content_changed(conv, existing)
       THEN <<Part("content changed", <<>>)>> ELSE <<>>))

\* The reason list of an update (index.py lines 81-87), joined.
update_reason(conv, existing) ==
  join(
    (IF is_fresher(conv, existing)
       THEN <<Part("newer timestamp", isoformat(conv.updated_at))>> ELSE <<>>)
    \o
    (IF has_more_messages(conv, existing)
       THEN <<Part("more messages", <<message_count(conv), existing.message_count>>)>>
       ELSE <<>>)
    \o
    (IF content_changed(conv, existing)
          /\ ~(is_fresher(conv, existing) \/ has_more_messages(conv, existing))
       THEN <<Part("content changed", <<>>)>> ELSE <<>>))

\* An assignment that drops the other keys.
Put_alone(ents, key, value) == [k \in {key} |-> value]

EmptyIndex == [k \in {} |-> 0]

\* self.entries[key] = value
Put(ents, key, value) ==
  [k \in DOMAIN ents \cup {key} |-> IF k = key THEN value ELSE ents[k]]

\* A merge that rewrites the entry also when it reports "skipped".
merge_refreshing_skipped(ents, conv, raw_path) ==
  IF conv.id \notin DOMAIN ents
    THEN [entries |-> Put(ents, conv.id, from_conversation(conv, raw_path)),
          result |-> MergeResult("added", conv.id, NoReason)]
    ELSE LET existing == ents[conv.id] IN
         IF is_fresher(conv, existing) \/ has_more_messages(conv, existing)
              \/ content_changed(conv, existing)
           THEN [entries |-> Put(ents, conv.id, from_conversation(conv, raw_path)),
                 result |-> MergeResult("updated", conv.id,
                                        Reason(update_reason(conv, existing)))]
           ELSE [entries |-> Put(ents, conv.id, from_conversation(conv, raw_path)),
                 result |-> MergeResult("skipped", conv.id,
                                        Reason(<<Part("no changes detected", <<>>)>>))]

\* Index.merge: the entries after the call and the MergeResult returned.
merge(ents, conv, raw_path) ==
  IF conv.id \notin DOMAIN ents
    THEN [entries |-> Put(ents, conv.id, from_conversation(conv, raw_path)),
          result |-> MergeResult("added", conv.id, NoReason)]
    ELSE LET existing == ents[conv.id] IN
         IF is_fresher(conv, existing) \/ has_more_messages(conv, existing)
              \/ content_changed(conv, existing)
           THEN [entries |-> Put(ents, conv.id, from_conversation(conv, raw_path)),
                 result |-> MergeResult("updated", conv.id,
                                        Reason(update_reason(conv, existing)))]
           ELSE [entries |-> ents,
                 result |-> MergeResult("skipped", conv.id,
                                        Reason(<<Part("no changes detected", <<>>)>>))]

(***************************************************************************)
(* models.py / index.py: IndexEntry.to_dict, IndexEntry.from_dict,         *)
(* Index.save, Index.load.  The text of the index file is the sequence of  *)
(* the chunks json.dump writes: the head of the document (version, count), *)
(* one chunk per entry, and the closing tail.  The generation timestamp of *)
(* the head is the wall clock, which load never reads; it is left out.     *)
(***************************************************************************)
\* IndexEntry.to_dict
IndexEntry_to_dict(e) ==
  [id |-> e.id,
   source |-> e.source,
   native_id |-> e.native_id,
   updated_at |-> isoformat(e.updated_at),
   created_at |-> isoformat(e.created_at),
   title |-> e.title,
   message_count |-> e.message_count,
   content_hash |-> e.content_hash,
   raw_path |-> e.raw_path]

\* IndexEntry.from_dict
IndexEntry_from_dict(d) ==
  [id |-> d.id,
   source |-> d.source,
   native_id |-> d.native_id,
   updated_at |-> fromisoformat(d.updated_at),
   created_at |-> fromisoformat(d.created_at),
   title |-> d.title,
   message_count |-> d.message_count,
   content_hash |-> d.content_hash,
   raw_path |-> d.raw_path]

HeadChunk(count) == [kind |-> "head", version |-> "1.0", count |-> count, entry |-> None]
EntryChunk(d) == [kind |-> "entry", version |-> "", count |-> 0, entry |-> Some(d)]
TailChunk == [kind |-> "tail", version |-> "", count |-> 0, entry |-> None]

\* The native ids and sources of the model.
NativeIdNames == <<"a", "b", "c", "d">>
SourceNames == <<"chatgpt", "claude-web">>

\* self.entries.values(): the entries in the order of the dict, which the
\* model fixes as the order of IdOrder.
IdOrder ==
  [n \in 1..(Len(SourceNames) * Len(NativeIdNames)) |->
     canonical_id(SourceNames[((n - 1) \div Len(NativeIdNames)) + 1],
                  NativeIdNames[((n - 1) % Len(NativeIdNames)) + 1])]
values(ents) ==
  LET ids == SelectSeq(IdOrder, LAMBDA k : k \in DOMAIN ents) IN
  [i \in 1..Len(ids) |-> ents[ids[i]]]

\* The text json.dump(data, f, indent=2, default=str) writes for the index.
IndexDocument(ents) ==
  LET vs == values(ents) IN
  <<HeadChunk(Cardinality(DOMAIN ents))>>
    \o [i \in 1..Len(vs) |-> EntryChunk(IndexEntry_to_dict(vs[i]))]
    \o <<TailChunk>>

NoFile == [exists |-> FALSE, text |-> <<>>]
File(text) == [exists |-> TRUE, text |-> text]

\* Whether json.load accepts the text: a whole document, head to tail.
IsCompleteJson(text) ==
  /\ Len(text) >= 2
  /\ text[1].kind = "head"
  /\ text[Len(text)].kind = "tail"
  /\ \A i \in 2..(Len(text) - 1) : text[i].kind = "entry"

\* Index.load: the mapping read from the file, or the exception of json.load.
load(file) ==
  IF ~file.exists THEN [raised |-> FALSE, entries |-> EmptyIndex]
  ELSE IF ~IsCompleteJson(file.text) THEN [raised |-> TRUE, entries |-> EmptyIndex]
  ELSE LET ds == [i \in 1..(Len(file.text) - 2) |-> file.text[i + 1].entry[1]]
           last(k) == CHOOSE i \in 1..Len(ds) :
                        ds[i].id = k /\ \A j \in (i + 1)..Len(ds) : ds[j].id # k
       IN [raised |-> FALSE,
           entries |-> [k \in {ds[i].id : i \in 1..Len(ds)} |->
                          IndexEntry_from_dict(ds[last(k)])]]

(***************************************************************************)
(* The index as a state machine: a sequence of Index.merge calls on one    *)
(* in-memory Index.                                                        *)
(***************************************************************************)
VARIABLES
  entries,     \* Index.entries of the running process
  result,      \* the MergeResult of the last merge
  lastCall,    \* the arguments of the last merge
  indexFile,   \* the index file on disk
  fileBefore,  \* the index file as it was when the save in progress began
  savePc,      \* "idle", "writing" (inside Index.save) or "killed"
  run,         \* the arguments of run_sync: dry_run, push, cloud.enabled
  exports,     \* per collector, the records of its export list
  pc,          \* the position of run_sync
  cur,         \* the collector and the record the collection loop is at
  convFiles,   \* the per-conversation files under the staging root
  rawArchive,  \* the raw archive written by _archive_raw
  remoteIndex, \* index.json on the cloud remote
  mergedIds,   \* the ids handed to index.merge in this run
  errors,      \* stats["errors"]
  mIn,         \* the arguments of a FileFinder._matches_pattern call
  mOut,        \* its return value, once it has returned
  fs,          \* the modified times of the files on disk
  call,        \* the arguments of a find_files or find_recent call
  fpc,         \* the position of that call
  rootIdx,     \* the search root the loop of find_files is at
  matches,     \* the local list matches / entries of the call
  searched,    \* the _search_directory calls it made: directory, pattern, priority
  returned,    \* the list the call returned
  mapping,     \* the mapping of a ChatGPT conversation
  current_node,\* its current_node
  tpc,         \* the position of _traverse_conversation_tree
  node_id,     \* its node_id / curr_id
  raw_messages,\* its messages list, which _extract_messages names raw_messages
  steps,       \* the iterations its loop has made
  extracted,   \* the messages list _extract_messages builds from raw_messages
  job,         \* the external invocations of an operation that are still to make
  ppc,         \* the position of the operation that invokes external processes
  proc,        \* the external process being waited for
  outcomes,    \* the results of the invocations made
  file_specs,  \* the file list handed to FileAnalyzer.analyze_multiple
  validation,  \* what validate_file_types returned for it
  argv,        \* the arguments of a hist or grep command
  cpc,         \* the position of the command handler
  exit_code,   \* the exit code the handler returned
  visited,     \* the directories walked on behalf of the command
  reported,    \* the entries or matches the command printed
  jsonl_files, \* the session files under the Claude Code projects directory
  kpc,         \* the position of ClaudeCodeCollector.collect
  session_groups, \* its session_groups: per session id, the files of the session
  yielded,     \* the conversations collect has yielded
  dedups,      \* the calls of _deduplicate_messages: input and outcome
  merge_log    \* the calls of Index.merge on one index: the entry met and the result

indexVars == <<entries, result, lastCall>>
fileVars == <<indexFile, fileBefore, savePc>>
syncVars == <<run, exports, pc, cur, convFiles, rawArchive, remoteIndex, mergedIds, errors>>
matchVars == <<mIn, mOut>>
filesVars == <<fs, call, fpc, rootIdx, matches, searched, returned>>
treeVars == <<mapping, current_node, tpc, node_id, raw_messages, steps, extracted>>
procVars == <<job, ppc, proc, outcomes>>
baseToolVars == <<matchVars, filesVars, treeVars, procVars>>
typesVars == <<file_specs, validation>>
cliVars == <<argv, cpc, exit_code, visited, reported>>
collectVars == <<jsonl_files, kpc, session_groups, yielded, dedups>>
logVars == <<merge_log>>
lateVars == <<typesVars, cliVars, collectVars, logVars>>
toolVars == <<matchVars, filesVars, treeVars, procVars, lateVars>>
vars == <<entries, result, lastCall, indexFile, fileBefore, savePc,
          run, exports, pc, cur, convFiles, rawArchive, remoteIndex, mergedIds, errors,
          mIn, mOut, fs, call, fpc, rootIdx, matches, searched, returned,
          mapping, current_node, tpc, node_id, raw_messages, steps, extracted,
          job, ppc, proc, outcomes,
          file_specs, validation, argv, cpc, exit_code, visited, reported,
          jsonl_files, kpc, session_groups, yielded, dedups, merge_log>>

\* No call of the file tool, no traversal and no external process under way.
MatchIdle == mIn = <<>> /\ mOut = <<>>
FilesIdle ==
  /\ fs = <<>>
  /\ call = <<>>
  /\ fpc = "idle"
  /\ rootIdx = 0
  /\ matches = <<>>
  /\ searched = <<>>
  /\ returned = <<>>
TreeIdle ==
  /\ mapping = <<>>
  /\ current_node = <<>>
  /\ tpc = "idle"
  /\ node_id = <<>>
  /\ raw_messages = <<>>
  /\ steps = 0
  /\ extracted = <<>>
ProcIdle == job = <<>> /\ ppc = "idle" /\ proc = <<>> /\ outcomes = <<>>
TypesIdle == file_specs = <<>> /\ validation = <<>>
CliIdle ==
  /\ argv = <<>>
  /\ cpc = "idle"
  /\ exit_code = <<>>
  /\ visited = <<>>
  /\ reported = <<>>
CollectIdle ==
  /\ jsonl_files = <<>>
  /\ kpc = "idle"
  /\ session_groups = <<>>
  /\ yielded = <<>>
  /\ dedups = <<>>
LogIdle == merge_log = <<>>
LateIdle == TypesIdle /\ CliIdle /\ CollectIdle /\ LogIdle

\* The identities of the model: one native id under two platforms, which the
\* canonical id keeps apart.
MainIdentity == <<"chatgpt", "a">>
OtherIdentity == <<"claude-web", "a">>

\* A path that leaves the source out.
raw_path_flat(conv) == <<"logs/", conv.native_id, ".json">>

\* sync.py line 82: raw_path = f"logs/{conv.source}/{conv.native_id}.json"
raw_path_of(conv) == <<"logs/", conv.source, "/", conv.native_id, ".json">>

\* The conversations a collector can hand to merge, all created at tick 0.
\* Every version of the main identity is drawn; the other identity, which
\* stands for the rest of the index, comes with one-message lists only.
MainConvs ==
  {Conversation(MainIdentity[1], MainIdentity[2], u, 0, ms, t) :
     u \in Times, ms \in MsgLists, t \in Titles}

OtherConvs ==
  {Conversation(OtherIdentity[1], OtherIdentity[2], u, 0, <<m>>, t) :
     u \in Times, m \in Msgs, t \in Titles}

Convs == MainConvs \cup OtherConvs

\* Whether two message lists hold the same messages in a different order.
Occurrences(ms, m) == Cardinality({i \in 1..Len(ms) : ms[i] = m})
IsReordering(a, b) ==
  /\ Len(a) = Len(b)
  /\ a # b
  /\ \A m \in Msgs : Occurrences(a, m) = Occurrences(b, m)

\* The last call of merge: its arguments, and whether the entry it met was
\* made from a reordering of the incoming messages.
NoCall ==
  [called |-> FALSE, conv |-> Conversation("", "", 0, 0, <<>>, None),
   raw_path |-> <<>>, reordered |-> FALSE]
Call(conv, raw_path, reordered) ==
  [called |-> TRUE, conv |-> conv, raw_path |-> raw_path, reordered |-> reordered]

MetReordering(ents, conv) ==
  /\ conv.id \in DOMAIN ents
  /\ ents[conv.id].updated_at = conv.updated_at
  /\ ents[conv.id].message_count = Len(conv.messages)
  /\ \E old \in [1..Len(conv.messages) -> Msgs] :
       /\ ents[conv.id].content_hash = sha256_prefix(json_dumps(old))
       /\ IsReordering(old, conv.messages)

NoResult == MergeResult("none", <<>>, NoReason)

Init ==
  /\ entries = EmptyIndex
  /\ result = NoResult
  /\ lastCall = NoCall
  /\ indexFile = NoFile
  /\ fileBefore = NoFile
  /\ savePc = "idle"
  /\ run = [dry_run |-> FALSE, push |-> FALSE, cloud_enabled |-> FALSE]
  /\ exports = <<>>
  /\ pc = "index"
  /\ cur = [c |-> 0, i |-> 0]
  /\ convFiles = EmptyIndex
  /\ rawArchive = EmptyIndex
  /\ remoteIndex = NoFile
  /\ mergedIds = {}
  /\ errors = 0
  /\ MatchIdle /\ FilesIdle /\ TreeIdle /\ ProcIdle /\ LateIdle

Merge(conv, raw_path) ==
  LET m == merge(entries, conv, raw_path) IN
  /\ entries' = m.entries
  /\ result' = m.result
  /\ lastCall' = Call(conv, raw_path, MetReordering(entries, conv))

Next ==
  \E conv \in Convs :
    Merge(conv, raw_path_of(conv)) /\ UNCHANGED <<toolVars, fileVars, syncVars>>

Spec == Init /\ [][Next]_vars

(***************************************************************************)
(* The index with its file: a process loads the index, merges, and saves   *)
(* it; Index.save is open(path, "w"), which truncates the file, the writes *)
(* of json.dump, and the close that flushes what is left.  A process may   *)
(* be killed inside save; the next process starts with Index.load.         *)
(***************************************************************************)
PersistConvs ==
  {Conversation(MainIdentity[1], MainIdentity[2], u, 0, <<UserMsg>>, t) :
     u \in Times, t \in Titles}
  \cup {Conversation(OtherIdentity[1], OtherIdentity[2], 0, 0, <<UserMsg>>, Some("Chat"))}

PMerge(conv) ==
  /\ savePc = "idle"
  /\ Merge(conv, raw_path_of(conv))
  /\ UNCHANGED <<toolVars, fileVars, syncVars>>

\* index.py line 54: open(path, "w")
SaveOpen ==
  /\ savePc = "idle"
  /\ fileBefore' = indexFile
  /\ indexFile' = File(<<>>)
  /\ savePc' = "writing"
  /\ UNCHANGED <<toolVars, indexVars, syncVars>>

\* index.py line 55: one more chunk of json.dump reaches the file
SaveWrite ==
  /\ savePc = "writing"
  /\ Len(indexFile.text) < Len(IndexDocument(entries))
  /\ indexFile' = File(SubSeq(IndexDocument(entries), 1, Len(indexFile.text) + 1))
  /\ UNCHANGED <<toolVars, indexVars, fileBefore, savePc, syncVars>>

\* index.py lines 54-55: the end of the with block flushes and closes
SaveClose ==
  /\ savePc = "writing"
  /\ indexFile' = File(IndexDocument(entries))
  /\ fileBefore' = indexFile'
  /\ savePc' = "idle"
  /\ UNCHANGED <<toolVars, indexVars, syncVars>>

\* The process is killed inside Index.save: the file stays as written so far.
Kill ==
  /\ savePc = "writing"
  /\ savePc' = "killed"
  /\ entries' = EmptyIndex
  /\ result' = NoResult
  /\ lastCall' = NoCall
  /\ UNCHANGED <<toolVars, indexFile, fileBefore, syncVars>>

\* sync.py line 54: a new process starts with Index.load(index_path)
Load ==
  /\ savePc \in {"idle", "killed"}
  /\ LET l == load(indexFile) IN
       /\ entries' = l.entries
       /\ result' = IF l.raised THEN MergeResult("load raised", <<>>, NoReason) ELSE NoResult
  /\ lastCall' = NoCall
  /\ savePc' = "idle"
  /\ fileBefore' = indexFile
  /\ UNCHANGED <<toolVars, indexFile, syncVars>>

NextPersist ==
  \/ \E conv \in PersistConvs : PMerge(conv)
  \/ SaveOpen
  \/ SaveWrite
  \/ SaveClose
  \/ Kill
  \/ Load

SpecPersist == Init /\ [][NextPersist]_vars

(***************************************************************************)
(* Properties of Index.merge (checked under Spec).  In a step of Spec the  *)
(* unprimed index is the one merge met, lastCall' holds the arguments of   *)
(* the call and result' what it returned.                                  *)
(***************************************************************************)
NewerTimestamp(conv, existing) == existing.updated_at < conv.updated_at
MoreMessages(conv, existing) == existing.message_count < Len(conv.messages)
HashDiffers(conv, existing) ==
  existing.content_hash # sha256_prefix(json_dumps(conv.messages))
AnySignal(conv, existing) ==
  NewerTimestamp(conv, existing) \/ MoreMessages(conv, existing) \/ HashDiffers(conv, existing)

\* C1: a merge on an id that has an entry returns "updated" and replaces the
\* entry if and only if the incoming updated_at is greater, or the incoming
\* message_count is greater, or the content_hash differs; otherwise it
\* returns "skipped".
C1_UpdatedIffSignal ==
  [][LET conv == lastCall'.conv IN
     conv.id \in DOMAIN entries =>
       LET existing == entries[conv.id] IN
       /\ result'.action \in {"updated", "skipped"}
       /\ result'.conversation_id = conv.id
       /\ (result'.action = "updated") <=> AnySignal(conv, existing)
       /\ AnySignal(conv, existing) =>
            entries'[conv.id] = from_conversation(conv, lastCall'.raw_path)
       /\ ~AnySignal(conv, existing) => result'.action = "skipped"]_vars

\* C1 witness: an update that only the differing hash triggered (same
\* timestamp, same count).
C1_Witness ==
  /\ result.action = "updated"
  /\ result.reason.text = <<Part("content changed", <<>>)>>
  /\ entries[result.conversation_id].updated_at = MaxTime

\* C2: a merge of an id with no entry inserts the entry built from the
\* conversation and returns "added"; the index grows by exactly one entry and
\* no other entry changes.
C2_AddedWhenAbsent ==
  [][LET conv == lastCall'.conv IN
     conv.id \notin DOMAIN entries =>
       /\ result'.action = "added"
       /\ result'.conversation_id = conv.id
       /\ DOMAIN entries' = DOMAIN entries \cup {conv.id}
       /\ Cardinality(DOMAIN entries') = Cardinality(DOMAIN entries) + 1
       /\ entries'[conv.id] = from_conversation(conv, lastCall'.raw_path)
       /\ \A k \in DOMAIN entries : entries'[k] = entries[k]]_vars

\* C2 witness: a second entry has just been added beside an existing one.
C2_Witness ==
  /\ result.action = "added"
  /\ Cardinality(DOMAIN entries) = 2

\* C3: when merge returns "skipped" the whole mapping is unchanged and the
\* reason is exactly "no changes detected".
C3_SkippedLeavesIndex ==
  [][result'.action = "skipped" =>
       /\ entries' = entries
       /\ result'.reason = Reason(<<Part("no changes detected", <<>>)>>)]_vars

\* C3 witness: a skipped merge whose conversation carried another title than
\* the stored entry, which keeps its own.
C3_Witness ==
  /\ result.action = "skipped"
  /\ Cardinality(DOMAIN entries) = 2
  /\ entries[result.conversation_id].title # lastCall.conv.title

\* C4: merging the conversation that was merged last once more returns
\* "skipped" and leaves the index as it was; the first merge into the empty
\* index returns "added".
C4_MergeTwice ==
  [][/\ (lastCall.called /\ lastCall'.conv = lastCall.conv) =>
          (result'.action = "skipped" /\ entries' = entries)
     /\ entries = EmptyIndex => result'.action = "added"]_vars

\* C4 witness: the same conversation merged twice, the second time skipped,
\* with the entry the first merge made.
C4_Witness ==
  /\ result.action = "skipped"
  /\ Cardinality(DOMAIN entries) = 1
  /\ entries[result.conversation_id] = from_conversation(lastCall.conv, lastCall.raw_path)
  /\ Len(lastCall.conv.messages) = MaxMsgs

\* The parts of a joined reason, without the separators.
ReasonParts(text) == SelectSeq(text, LAMBDA p : p # Part(", ", <<>>))

\* C5: the reason of an "updated" merge lists, in this order, the newer
\* timestamp iff the incoming updated_at is greater, the message growth iff
\* the incoming message_count is greater, and "content changed" iff the hash
\* differs and neither of the other two fired; it is never empty.
C5_UpdateReason ==
  [][result'.action = "updated" =>
       LET conv == lastCall'.conv
           existing == entries[conv.id]
           f == NewerTimestamp(conv, existing)
           m == MoreMessages(conv, existing)
           c == HashDiffers(conv, existing) /\ ~f /\ ~m
           newer == Part("newer timestamp", isoformat(conv.updated_at))
           more == Part("more messages", <<Len(conv.messages), existing.message_count>>)
           changed == Part("content changed", <<>>)
           text == result'.reason.text
       IN /\ ~result'.reason.isNone
          /\ text # <<>>
          /\ ReasonParts(text) =
               (IF f THEN <<newer>> ELSE <<>>) \o (IF m THEN <<more>> ELSE <<>>)
                 \o (IF c THEN <<changed>> ELSE <<>>)
          /\ Len(text) = 2 * Len(ReasonParts(text)) - 1]_vars

\* C5 witness: equal timestamps and MaxMsgs incoming against one stored
\* message: updated, the reason citing only the message growth.
C5_Witness ==
  /\ result.action = "updated"
  /\ result.reason.text = <<Part("more messages", <<MaxMsgs, 1>>)>>

\* C6: two message lists holding the same messages in a different order have
\* different content hashes, and merging the second over an entry made from
\* the first (same id, same updated_at, same count) returns "updated".
ReorderedHashesDiffer ==
  \A a, b \in MsgLists :
    IsReordering(a, b) =>
      content_hash([messages |-> a]) # content_hash([messages |-> b])

C6_OrderSensitiveHash ==
  [][/\ ReorderedHashesDiffer
     /\ lastCall'.reordered => result'.action = "updated"]_vars

\* C6 witness: a conversation merged over the entry of its reordering.
C6_Witness ==
  /\ lastCall.reordered
  /\ result.action = "updated"
  /\ result.reason.text = <<Part("content changed", <<>>)>>

(***************************************************************************)
(* sync.py: run_sync, with the ChatGPT and the Claude.ai export collectors *)
(* configured (config.sources holds no "claude-code").  Each collector     *)
(* reads one export list of MaxRecords records; the i-th record of a list  *)
(* has the i-th native id.  A record is                                    *)
(*   "ok"        a well-formed conversation with a title,                  *)
(*   "untitled"  a well-formed conversation whose title is None,           *)
(*   "malformed" a dict whose parsing raises,                              *)
(*   "nondict"   a list element that is no dict,                           *)
(*   "repeat"    a well-formed conversation that carries the first native  *)
(*               id of the list once more, with another message.           *)
(***************************************************************************)
RecordKinds == {"ok", "untitled", "malformed", "nondict"}

\* What the generator of a collector does with a record: "yield" a
\* Conversation, "skip" the record and go on, or "stop" (the exception leaves
\* the loop over the list and ends the generator).
\*   ChatGPT (_parse_conversations): the try of the loop catches the
\*   exception of a malformed dict; for a non-dict the handler's own
\*   conv_data.get raises and leaves the loop.
\*   Claude.ai (_process_bulk_file): a non-dict fails _is_claude_conversation
\*   and is passed over; the loop has no try, so the exception of a malformed
\*   dict leaves it and is caught per file in collect().
parse_outcome(source, kind) ==
  IF kind \in {"ok", "untitled", "repeat"} THEN "yield"
  ELSE IF source = "chatgpt"
    THEN (IF kind = "malformed" THEN "skip" ELSE "stop")
    ELSE (IF kind = "malformed" THEN "stop" ELSE "skip")

\* The Conversation a well-formed record parses to.
record_conv(c, i, kind) ==
  Conversation(SourceNames[c],
               IF kind = "repeat" THEN NativeIdNames[1] ELSE NativeIdNames[i],
               0, 0,
               IF kind = "repeat" THEN <<AsstMsg>> ELSE <<UserMsg>>,
               IF kind = "untitled" THEN None ELSE Some("Chat"))

\* Conversation.to_dict (summary is None and metadata is left out: no export
\* of the model carries them into the index).
Conversation_to_dict(conv) ==
  [id |-> conv.id,
   source |-> conv.source,
   native_id |-> conv.native_id,
   updated_at |-> isoformat(conv.updated_at),
   created_at |-> isoformat(conv.created_at),
   title |-> conv.title,
   summary |-> None,
   message_count |-> message_count(conv),
   content_hash |-> content_hash(conv),
   messages |-> [i \in 1..Len(conv.messages) |-> Message_to_dict(conv.messages[i])]]

\* sync.py lines 95 and 100: conv.title[:60] raises TypeError on None.
echo_raises(action, conv) == action \in {"added", "updated"} /\ conv.title = None

\* The index files a run can find: none, or one entry left by an earlier run.
LocalIndexes ==
  {NoFile,
   File(IndexDocument(
     LET conv == record_conv(1, 1, "ok") IN
     Put(EmptyIndex, conv.id, from_conversation(conv, raw_path_of(conv)))))}

\* The index on the remote: none, or one entry pushed from another machine.
RemoteIndexes ==
  {NoFile,
   File(IndexDocument(
     LET conv == Conversation(SourceNames[2], NativeIdNames[1], MaxTime, 0,
                              <<UserMsg, AsstMsg>>, Some("Chat")) IN
     Put(EmptyIndex, conv.id, from_conversation(conv, raw_path_of(conv)))))}

InitSync ==
  /\ entries = EmptyIndex
  /\ result = NoResult
  /\ lastCall = NoCall
  /\ indexFile \in LocalIndexes
  /\ fileBefore = indexFile
  /\ savePc = "idle"
  /\ run \in [dry_run : BOOLEAN, push : BOOLEAN, cloud_enabled : BOOLEAN]
  /\ exports \in [1..Len(SourceNames) -> [1..MaxRecords -> RecordKinds]]
  /\ pc = "pull"
  /\ cur = [c |-> 1, i |-> 1]
  /\ convFiles = EmptyIndex
  /\ rawArchive = EmptyIndex
  /\ remoteIndex \in RemoteIndexes
  /\ mergedIds = {}
  /\ errors = 0
  /\ MatchIdle /\ FilesIdle /\ TreeIdle /\ ProcIdle /\ LateIdle

\* sync.py lines 44-51: the pull is left out without push or cloud.
PullSkipped ==
  /\ pc = "pull"
  /\ ~(run.push /\ run.cloud_enabled)
  /\ pc' = "load"
  /\ UNCHANGED <<toolVars, indexVars, fileVars, run, exports, cur, convFiles, rawArchive,
                 remoteIndex, mergedIds, errors>>

\* cloud.py lines 70-93: rclone copy writes the remote index.json over the
\* local one.
PullCopies ==
  /\ pc = "pull"
  /\ run.push /\ run.cloud_enabled
  /\ remoteIndex.exists
  /\ indexFile' = remoteIndex
  /\ pc' = "load"
  /\ UNCHANGED <<toolVars, indexVars, fileBefore, savePc, run, exports, cur, convFiles,
                 rawArchive, remoteIndex, mergedIds, errors>>

\* cloud.py lines 55-65 and 78-104: no rclone, no remote, no remote index, an
\* rclone error or its timeout leave the local file.
PullFails ==
  /\ pc = "pull"
  /\ run.push /\ run.cloud_enabled
  /\ pc' = "load"
  /\ UNCHANGED <<toolVars, indexVars, fileVars, run, exports, cur, convFiles, rawArchive,
                 remoteIndex, mergedIds, errors>>

\* sync.py line 54: index = Index.load(index_path)
LoadIndex ==
  /\ pc = "load"
  /\ LET l == load(indexFile) IN
       /\ entries' = l.entries
       /\ pc' = IF l.raised THEN "aborted" ELSE "collect"
  /\ UNCHANGED <<toolVars, result, lastCall, fileVars, run, exports, cur, convFiles,
                 rawArchive, remoteIndex, mergedIds, errors>>

AtRecord ==
  /\ pc = "collect"
  /\ cur.c <= Len(SourceNames)
  /\ cur.i <= Len(exports[cur.c])

\* The collector passes over the record and parses the next one.
RecordSkipped ==
  /\ AtRecord
  /\ parse_outcome(SourceNames[cur.c], exports[cur.c][cur.i]) = "skip"
  /\ cur' = [cur EXCEPT !.i = @ + 1]
  /\ UNCHANGED <<toolVars, indexVars, fileVars, run, exports, pc, convFiles, rawArchive,
                 remoteIndex, mergedIds, errors>>

\* The exception of the record ends the generator: collect() catches it per
\* file, there is no other file, and run_sync goes on with the next collector.
RecordStopsCollector ==
  /\ AtRecord
  /\ parse_outcome(SourceNames[cur.c], exports[cur.c][cur.i]) = "stop"
  /\ cur' = [c |-> cur.c + 1, i |-> 1]
  /\ UNCHANGED <<toolVars, indexVars, fileVars, run, exports, pc, convFiles, rawArchive,
                 remoteIndex, mergedIds, errors>>

\* The collector archives the raw record and yields the Conversation; the
\* body of the loop of run_sync (sync.py lines 78-110) writes the conversation
\* file, merges, and echoes the title; an exception of the body is caught
\* outside the loop (lines 112-116), which goes on with the next collector.
RecordYielded ==
  /\ AtRecord
  /\ parse_outcome(SourceNames[cur.c], exports[cur.c][cur.i]) = "yield"
  /\ LET kind == exports[cur.c][cur.i]
         conv == record_conv(cur.c, cur.i, kind)
         raw_path == raw_path_of(conv)
         m == merge(entries, conv, raw_path)
         raised == echo_raises(m.result.action, conv)
     IN /\ rawArchive' = IF run.dry_run THEN rawArchive
                         ELSE Put(rawArchive, <<conv.source, conv.native_id>>, kind)
        /\ convFiles' = IF run.dry_run THEN convFiles
                        ELSE Put(convFiles, raw_path, Conversation_to_dict(conv))
        /\ entries' = m.entries
        /\ result' = m.result
        /\ lastCall' = Call(conv, raw_path, MetReordering(entries, conv))
        /\ mergedIds' = mergedIds \cup {conv.id}
        /\ errors' = IF raised THEN errors + 1 ELSE errors
        /\ cur' = IF raised THEN [c |-> cur.c + 1, i |-> 1]
                            ELSE [cur EXCEPT !.i = @ + 1]
  /\ UNCHANGED <<toolVars, fileVars, run, exports, pc, remoteIndex>>

\* The generator is exhausted: the next collector.
CollectorExhausted ==
  /\ pc = "collect"
  /\ cur.c <= Len(SourceNames)
  /\ cur.i > Len(exports[cur.c])
  /\ cur' = [c |-> cur.c + 1, i |-> 1]
  /\ UNCHANGED <<toolVars, indexVars, fileVars, run, exports, pc, convFiles, rawArchive,
                 remoteIndex, mergedIds, errors>>

\* sync.py lines 122-126: index.save(index_path) unless dry_run
SaveIndex ==
  /\ pc = "collect"
  /\ cur.c > Len(SourceNames)
  /\ indexFile' = IF run.dry_run THEN indexFile ELSE File(IndexDocument(entries))
  /\ pc' = "push"
  /\ UNCHANGED <<toolVars, indexVars, fileBefore, savePc, run, exports, cur, convFiles,
                 rawArchive, remoteIndex, mergedIds, errors>>

\* sync.py lines 129-138, cloud.py lines 107-201: rclone sync of the staging
\* directory to the remote (with --dry-run in a dry run), which may fail.
PushStaging ==
  /\ pc = "push"
  /\ \E ok \in BOOLEAN :
       remoteIndex' = IF run.push /\ run.cloud_enabled /\ ~run.dry_run /\ ok
                        THEN indexFile ELSE remoteIndex
  /\ pc' = "done"
  /\ UNCHANGED <<toolVars, indexVars, fileVars, run, exports, cur, convFiles, rawArchive,
                 mergedIds, errors>>

NextSync ==
  \/ PullSkipped
  \/ PullCopies
  \/ PullFails
  \/ LoadIndex
  \/ RecordSkipped
  \/ RecordStopsCollector
  \/ RecordYielded
  \/ CollectorExhausted
  \/ SaveIndex
  \/ PushStaging

SpecSync == InitSync /\ [][NextSync]_vars

(***************************************************************************)
(* Properties of Index.save and Index.load (checked under SpecPersist).    *)
(***************************************************************************)
\* C7: Index.save overwrites the index file atomically: at every point of a
\* save over a complete document, and after a kill, the file holds the
\* complete previous document or the complete new one, never an empty or
\* partly written one.
C7_SaveAtomic ==
  (fileBefore.exists /\ IsCompleteJson(fileBefore.text)) =>
    /\ IsCompleteJson(indexFile.text)
    /\ savePc = "writing" =>
         indexFile = fileBefore \/ indexFile = File(IndexDocument(entries))

\* C8: Index.load of the file Index.save wrote yields the mapping that was
\* saved, the count of the document is the number of entries, and load of a
\* path with no file yields the empty index without raising.
C8_SaveLoadRoundTrip ==
  [][/\ (savePc = "writing" /\ savePc' = "idle") =>
          /\ load(indexFile') = [raised |-> FALSE, entries |-> entries']
          /\ indexFile'.text[1].count = Cardinality(DOMAIN entries')
     /\ ~indexFile.exists =>
          load(indexFile) = [raised |-> FALSE, entries |-> EmptyIndex]]_vars

\* C8 witness: an index of two entries read back by load, one of them with no
\* title and a fraction of a second in updated_at.
C8_Witness ==
  /\ ~lastCall.called
  /\ result = NoResult
  /\ savePc = "idle"
  /\ Cardinality(DOMAIN entries) = 2
  /\ \E k \in DOMAIN entries :
       entries[k].title = None /\ entries[k].updated_at % Resolution # 0

(***************************************************************************)
(* Properties of run_sync (checked under SpecSync).                        *)
(***************************************************************************)
WellFormed(kind) == kind \in {"ok", "untitled"}

\* C9: a failure while processing one record never aborts the rest of the
\* run: at the end of run_sync every well-formed conversation of every export
\* has been collected and merged, whatever records raised before it, and the
\* index has been saved.
C9_NoRecordAbortsTheRun ==
  pc = "done" =>
    /\ \A c \in 1..Len(SourceNames) : \A i \in 1..Len(exports[c]) :
         WellFormed(exports[c][i]) =>
           record_conv(c, i, exports[c][i]).id \in mergedIds
    /\ ~run.dry_run => indexFile = File(IndexDocument(entries))

\* C10: with dry_run the persisted state is never changed: the index file,
\* the conversation files and the raw archive stay as the run found them,
\* for every push and cloud setting.
C10_DryRunChangesNothing ==
  run.dry_run =>
    /\ indexFile = fileBefore
    /\ convFiles = EmptyIndex
    /\ rawArchive = EmptyIndex

(***************************************************************************)
(* filedetective: strings.  A Python string is the sequence of its         *)
(* characters, a path the sequence of its components.                      *)
(***************************************************************************)
MaxDepth == 4

UpperCase == <<"A", "B", "C", "D", "E", "F", "G", "H", "I", "J", "K", "L", "M",
               "N", "O", "P", "Q", "R", "S", "T", "U", "V", "W", "X", "Y", "Z">>
LowerCase == <<"a", "b", "c", "d", "e", "f", "g", "h", "i", "j", "k", "l", "m",
               "n", "o", "p", "q", "r", "s", "t", "u", "v", "w", "x", "y", "z">>
LowerTable ==
  [c \in {UpperCase[i] : i \in 1..Len(UpperCase)} |->
     LowerCase[CHOOSE i \in 1..Len(UpperCase) : UpperCase[i] = c]]

\* str.lower()
lower(str) ==
  [i \in 1..Len(str) |-> IF str[i] \in DOMAIN LowerTable THEN LowerTable[str[i]]
                                                         ELSE str[i]]

\* c in str
Contains(str, c) == \E i \in 1..Len(str) : str[i] = c
startswith(str, c) == Len(str) > 0 /\ str[1] = c

\* fnmatch.fnmatch(name, pat) on a POSIX system (normcase is the identity),
\* for patterns without a bracket: "*" is the regular expression ".*" under
\* DOTALL and matches every run of characters, the separator "/" included;
\* "?" matches one character.
RECURSIVE fnmatch(_, _)
fnmatch(name, pat) ==
  IF pat = <<>> THEN name = <<>>
  ELSE IF pat[1] = "*"
    THEN fnmatch(name, Tail(pat)) \/ (name # <<>> /\ fnmatch(Tail(name), pat))
    ELSE /\ name # <<>>
         /\ (pat[1] = "?" \/ pat[1] = name[1])
         /\ fnmatch(Tail(name), Tail(pat))

\* str(path): the components joined by the separator.
RECURSIVE JoinPath(_)
JoinPath(parts) ==
  IF parts = <<>> THEN <<>>
  ELSE IF Len(parts) = 1 THEN parts[1]
  ELSE parts[1] \o <<"/">> \o JoinPath(Tail(parts))

\* Whether path lies under base (Path.relative_to does not raise).
IsUnder(path, base) ==
  Len(path) >= Len(base) /\ SubSeq(path, 1, Len(base)) = base
\* Path(full_path).relative_to(base_path)
relative_to(path, base) == SubSeq(path, Len(base) + 1, Len(path))

(***************************************************************************)
(* file_finder.py: FileFinder._matches_pattern                             *)
(***************************************************************************)
\* A _matches_pattern that compares the lowered name with the pattern as
\* it was typed.
matches_pattern_keeping_case(filename, pattern, full_path, base_path) ==
  IF Contains(pattern, "/") \/ Contains(pattern, "\\")
    THEN /\ full_path # <<>> /\ base_path # <<>>
         /\ IsUnder(full_path, base_path)
         /\ LET rel == lower(JoinPath(relative_to(full_path, base_path))) IN
              \/ fnmatch(rel, pattern)
              \/ fnmatch(rel, <<"*", "/">> \o pattern)
              \/ fnmatch(rel, <<"*", "/", "*", "/">> \o pattern)
    ELSE \/ lower(filename) = pattern
         \/ fnmatch(lower(filename), pattern)

matches_pattern(filename, pattern, full_path, base_path) ==
  IF Contains(pattern, "/") \/ Contains(pattern, "\\")
    THEN /\ full_path # <<>> /\ base_path # <<>>
         /\ IsUnder(full_path, base_path)
         /\ LET rel_path_lower == lower(JoinPath(relative_to(full_path, base_path)))
                pattern_lower == lower(pattern)
            IN \/ fnmatch(rel_path_lower, pattern_lower)
               \/ fnmatch(rel_path_lower, <<"*", "/">> \o pattern_lower)
               \/ fnmatch(rel_path_lower, <<"*", "/", "*", "/">> \o pattern_lower)
    ELSE LET filename_lower == lower(filename)
             pattern_lower == lower(pattern)
         IN \/ filename_lower = pattern_lower
            \/ fnmatch(filename_lower, pattern_lower)

\* The calls of the model: a file x.m, X.M or x.p some directories deep
\* under the root r, with directories named a and d, matched from the base
\* r or from the base q.
MatchDirNames == {<<"a">>, <<"d">>}
MatchFileNames == {<<"x", ".", "m">>, <<"X", ".", "M">>, <<"x", ".", "p">>}
MatchBases == {<<(<<"r">>)>>, <<(<<"q">>)>>}
MatchPatterns ==
  {<<"d", "/", "*", ".", "m">>,      \* d/*.m
   <<"D", "/", "*", ".", "M">>,      \* D/*.M
   <<"d", "/", "x", ".", "m">>,      \* d/x.m
   <<"a", "/", "?", ".", "m">>,      \* a/?.m
   <<"*", ".", "m">>,                \* *.m
   <<"*", ".", "M">>,                \* *.M
   <<"x", ".", "m">>,                \* x.m
   <<"X", ".", "?">>,                \* X.?
   <<"*">>,                          \* *
   <<>>}                             \* the empty pattern
MatchDirChains == UNION {[1..n -> MatchDirNames] : n \in 0..MaxDepth}

MatchCalls ==
  {[filename |-> f, pattern |-> p,
    full_path |-> <<(<<"r">>)>> \o ds \o <<f>>, base_path |-> b] :
     f \in MatchFileNames, p \in MatchPatterns, ds \in MatchDirChains,
     b \in MatchBases}

\* The index, its file and run_sync at rest.
SyncIdle ==
  /\ entries = EmptyIndex
  /\ result = NoResult
  /\ lastCall = NoCall
  /\ indexFile = NoFile
  /\ fileBefore = NoFile
  /\ savePc = "idle"
  /\ run = [dry_run |-> FALSE, push |-> FALSE, cloud_enabled |-> FALSE]
  /\ exports = <<>>
  /\ pc = "index"
  /\ cur = [c |-> 0, i |-> 0]
  /\ convFiles = EmptyIndex
  /\ rawArchive = EmptyIndex
  /\ remoteIndex = NoFile
  /\ mergedIds = {}
  /\ errors = 0
syncAllVars == <<indexVars, fileVars, syncVars>>

InitMatch ==
  /\ SyncIdle /\ FilesIdle /\ TreeIdle /\ ProcIdle /\ LateIdle
  /\ mIn \in MatchCalls
  /\ mOut = <<>>

\* The call returns.
MatchReturns ==
  /\ mOut = <<>>
  /\ mOut' = <<matches_pattern(mIn.filename, mIn.pattern, mIn.full_path, mIn.base_path)>>
  /\ UNCHANGED <<mIn, syncAllVars, lateVars, filesVars, treeVars, procVars>>

NextMatch == MatchReturns

SpecMatch == InitMatch /\ [][NextMatch]_vars

(***************************************************************************)
(* Properties of FileFinder._matches_pattern (checked under SpecMatch).    *)
(***************************************************************************)
IsPathPattern(pattern) == Contains(pattern, "/") \/ Contains(pattern, "\\")

\* The relative path of the call after skipping k leading directories.
SkipLeading(k) ==
  LET rel == relative_to(mIn.full_path, mIn.base_path) IN
  JoinPath(SubSeq(rel, k + 1, Len(rel)))

\* C16: a pattern with a path separator matches a file only if it
\* glob-matches the file's path relative to the search root directly, or
\* after skipping exactly one or exactly two leading directories; a suffix
\* that starts three or more directories below the root is not matched, and
\* a file that is not under the base path never matches.
C16_PathModeBoundedToTwoLevels ==
  (mOut # <<>> /\ IsPathPattern(mIn.pattern)) =>
    (mOut[1] <=>
       /\ IsUnder(mIn.full_path, mIn.base_path)
       /\ \E k \in 0..2 :
            /\ k < Len(relative_to(mIn.full_path, mIn.base_path))
            /\ fnmatch(lower(SkipLeading(k)), lower(mIn.pattern)))

\* The spellings of a string that differ in letter case only.
CaseForms(c) ==
  {c} \cup {UpperCase[i] : i \in {j \in 1..Len(LowerCase) : LowerCase[j] = c}}
      \cup {LowerCase[i] : i \in {j \in 1..Len(UpperCase) : UpperCase[j] = c}}
RECURSIVE CaseVariants(_)
CaseVariants(str) ==
  IF str = <<>> THEN {<<>>}
  ELSE {<<c>> \o t : c \in CaseForms(str[1]), t \in CaseVariants(Tail(str))}

\* C17: for a pattern without a path separator the result of the match is
\* the same for every change of letter case in the file name or in the
\* pattern; X.M matches *.m and x.m matches *.M; the empty pattern matches
\* no file name.
C17_FilenameModeCaseInsensitive ==
  (mOut # <<>> /\ ~IsPathPattern(mIn.pattern)) =>
    /\ \A n \in CaseVariants(mIn.filename), p \in CaseVariants(mIn.pattern) :
         matches_pattern(n, p, mIn.full_path, mIn.base_path) = mOut[1]
    /\ (lower(mIn.filename) = <<"x", ".", "m">> /\ lower(mIn.pattern) = <<"*", ".", "m">>)
         => mOut[1]
    /\ mIn.pattern = <<>> => ~mOut[1]

C17_Witness ==
  /\ mOut = <<TRUE>>
  /\ mIn.filename = <<"X", ".", "M">>
  /\ mIn.pattern = <<"*", ".", "m">>

(***************************************************************************)
(* filedetective: the directory tree of the model.  An absolute path is    *)
(* the sequence of its parts as Path.parts gives them, the root "/" first. *)
(*                                                                         *)
(*   /r/a.py   /r/b.py   /r/.env   /r/w.log                                *)
(*   /r/.git/config      /r/node_modules/x.js                              *)
(*   /r/s/c.md           /r/s/E.MD                                         *)
(*   /q/d.py   /q/t.pyc                                                    *)
(*                                                                         *)
(* The tree is fixed; the modified times of a.py, c.md and d.py are        *)
(* drawn from Times, the files under .git and node_modules are the most    *)
(* recent ones, the other files are the oldest.  Sizes, contents and stat  *)
(* failures are left out.                                                  *)
(***************************************************************************)
Slash == <<"/">>
N_r == <<"r">>
N_q == <<"q">>
N_s == <<"s">>
N_zz == <<"z", "z">>
N_git == <<".", "g", "i", "t">>
N_node_modules == <<"n", "o", "d", "e", "_", "m", "o", "d", "u", "l", "e", "s">>
N_a_py == <<"a", ".", "p", "y">>
N_b_py == <<"b", ".", "p", "y">>
N_env == <<".", "e", "n", "v">>
N_w_log == <<"w", ".", "l", "o", "g">>
N_config == <<"c", "o", "n", "f", "i", "g">>
N_x_js == <<"x", ".", "j", "s">>
N_c_md == <<"c", ".", "m", "d">>
N_E_MD == <<"E", ".", "M", "D">>
N_d_py == <<"d", ".", "p", "y">>
N_t_pyc == <<"t", ".", "p", "y", "c">>

\* The files, in the order the directory listings return them.
FileOrder ==
  << <<Slash, N_r, N_a_py>>,
     <<Slash, N_r, N_b_py>>,
     <<Slash, N_r, N_env>>,
     <<Slash, N_r, N_w_log>>,
     <<Slash, N_r, N_git, N_config>>,
     <<Slash, N_r, N_node_modules, N_x_js>>,
     <<Slash, N_r, N_s, N_c_md>>,
     <<Slash, N_r, N_s, N_E_MD>>,
     <<Slash, N_q, N_d_py>>,
     <<Slash, N_q, N_t_pyc>> >>
AllFiles == {FileOrder[i] : i \in 1..Len(FileOrder)}
TimedFiles ==
  {<<Slash, N_r, N_a_py>>, <<Slash, N_r, N_s, N_c_md>>, <<Slash, N_q, N_d_py>>}
RecentFiles == {<<Slash, N_r, N_git, N_config>>, <<Slash, N_r, N_node_modules, N_x_js>>}

\* The states of the disk: the modified time (st_mtime) of every file.
FsStates ==
  {[f \in AllFiles |-> IF f \in TimedFiles THEN g[f]
                       ELSE IF f \in RecentFiles THEN MaxTime ELSE 0] :
     g \in [TimedFiles -> Times]}

\* Path.exists() and Path.is_dir() of a directory path, Path.is_file().
is_dir(path) ==
  /\ Len(path) >= 1 /\ path[1] = Slash
  /\ \E f \in AllFiles : Len(f) > Len(path) /\ IsUnder(f, path)
is_file(path) == path \in AllFiles

\* The names in a directory, files and subdirectories, in listing order.
FirstIndex(seq, x) == CHOOSE i \in 1..Len(seq) : seq[i] = x /\ \A j \in 1..(i - 1) : seq[j] # x
listdir(dir) ==
  LET under == SelectSeq(FileOrder, LAMBDA f : Len(f) > Len(dir) /\ IsUnder(f, dir))
      names == [i \in 1..Len(under) |-> under[i][Len(dir) + 1]]
  IN [k \in 1..Cardinality({names[i] : i \in 1..Len(names)}) |->
        names[CHOOSE i \in 1..Len(names) :
                /\ FirstIndex(names, names[i]) = i
                /\ Cardinality({FirstIndex(names, names[j]) : j \in 1..i}) = k]]
files_of(dir) ==
  LET ns == SelectSeq(listdir(dir), LAMBDA n : is_file(dir \o <<n>>)) IN
  [i \in 1..Len(ns) |-> dir \o <<ns[i]>>]
dirs_of(dir) == SelectSeq(listdir(dir), LAMBDA n : is_dir(dir \o <<n>>))
AllDirNames == {f[i] : f \in AllFiles, i \in 2..3} \ {f[Len(f)] : f \in AllFiles}

\* os.walk(top, followlinks=False) with the in-place filter dirs[:] = [...]:
\* top-down, the files of a directory first, then the subdirectories the
\* filter keeps; a subdirectory whose name is in pruned is never entered.
\* The result is the sequence of the file paths the loop body sees.
RECURSIVE os_walk(_, _)
RECURSIVE os_walk_each(_, _, _)
\* An os.walk whose list of subdirectories is not filtered.
os_walk_unfiltered(top, pruned) ==
  files_of(top) \o os_walk_each(top, dirs_of(top), {})
os_walk(top, pruned) ==
  files_of(top)
    \o os_walk_each(top, SelectSeq(dirs_of(top), LAMBDA d : d \notin pruned), pruned)
os_walk_each(top, dirs, pruned) ==
  IF dirs = <<>> THEN <<>>
  ELSE os_walk(top \o <<Head(dirs)>>, pruned) \o os_walk_each(top, Tail(dirs), pruned)

(***************************************************************************)
(* file_finder.py: FileFinder.  The configuration read by __init__ skips   *)
(* the directories .git and node_modules and the files *.pyc; the search   *)
(* roots are an input of the model.  content_search is None in every call. *)
(***************************************************************************)
skip_dirs == {N_git, N_node_modules}
skip_patterns == <<<<"*", ".", "p", "y", "c">>>>
Home == <<Slash, N_r>>

FileMatch(path, priority, modified_date) ==
  [path |-> path, priority |-> priority, modified_date |-> modified_date]

\* list.sort(key=...) and sorted(...): a stable sort; keys[i] is the key of
\* seq[i], a pair compared as Python compares tuples.
KeyLess(a, b) == a[1] < b[1] \/ (a[1] = b[1] /\ a[2] < b[2])
stable_sort(seq, keys) ==
  LET n == Len(seq)
      Rank(i) == Cardinality({j \in 1..n : KeyLess(keys[j], keys[i])
                                           \/ (keys[j] = keys[i] /\ j < i)}) + 1
  IN [r \in 1..n |-> seq[CHOOSE i \in 1..n : Rank(i) = r]]

\* __init__: sorted(self.config["search_directories"], key=priority)
sorted_search_dirs(config) ==
  stable_sort(config, [i \in 1..Len(config) |-> <<config[i].priority, 0>>])

\* _should_skip: fnmatch of the file name against the skip patterns.
should_skip(path) ==
  \E i \in 1..Len(skip_patterns) : fnmatch(path[Len(path)], skip_patterns[i])

\* A _search_directory that walks into every subdirectory.
search_directory_unfiltered(files, dir_path, pattern, priority, recursive, exclude) ==
  LET seen == IF recursive THEN os_walk_unfiltered(dir_path, {})
                           ELSE files_of(dir_path)
      kept == SelectSeq(seen, LAMBDA f :
                ~should_skip(f) /\ matches_pattern(f[Len(f)], pattern, f, dir_path))
  IN [i \in 1..Len(kept) |-> FileMatch(kept[i], priority, files[kept[i]])]

\* _search_directory (lines 138-236): the matches of one directory.
search_directory(files, dir_path, pattern, priority, recursive, exclude) ==
  LET seen == IF recursive
                THEN os_walk(dir_path, {d \in AllDirNames : d \in skip_dirs \/ d \in exclude})
                ELSE files_of(dir_path)
      kept == SelectSeq(seen, LAMBDA f :
                ~should_skip(f) /\ matches_pattern(f[Len(f)], pattern, f, dir_path))
  IN [i \in 1..Len(kept) |-> FileMatch(kept[i], priority, files[kept[i]])]

\* str.split("/")
RECURSIVE Split(_)
Split(str) ==
  IF ~Contains(str, "/") THEN <<str>>
  ELSE LET i == CHOOSE k \in 1..Len(str) : str[k] = "/" /\ \A j \in 1..(k - 1) : str[j] # "/"
       IN <<SubSeq(str, 1, i - 1)>> \o Split(SubSeq(str, i + 1, Len(str)))

\* Path(str).parts: the components, the root "/" first for an absolute path.
Parts(str) ==
  LET comps == SelectSeq(Split(str), LAMBDA c : c # <<>> /\ c # <<".">>) IN
  IF startswith(str, "/") THEN <<Slash>> \o comps ELSE comps

\* Path.expanduser(): a leading "~" is the home directory.
expanduser(parts) ==
  IF parts # <<>> /\ parts[1] = <<"~">> THEN Home \o Tail(parts) ELSE parts

\* The loop of _extract_explicit_directory run from the shortest prefix.
RECURSIVE shortest_dir_prefix(_, _)
shortest_dir_prefix(parts, i) ==
  IF i > Len(parts) THEN 0
  ELSE IF is_dir(SubSeq(parts, 1, i)) THEN i
  ELSE shortest_dir_prefix(parts, i + 1)
first_dir_prefix_from_short(parts, i) == shortest_dir_prefix(parts, 1)

\* for i in range(len(parts), 0, -1): the first i whose prefix is a directory.
RECURSIVE first_dir_prefix(_, _)
first_dir_prefix(parts, i) ==
  IF i = 0 THEN 0
  ELSE IF is_dir(SubSeq(parts, 1, i)) THEN i
  ELSE first_dir_prefix(parts, i - 1)

\* _extract_explicit_directory: (directory or None, pattern)
extract_explicit_directory(pattern) ==
  IF ~startswith(pattern, "~") /\ ~startswith(pattern, "/")
    THEN [dir |-> None, pattern |-> pattern]
  ELSE LET parts == expanduser(Parts(pattern))
           i == first_dir_prefix(parts, Len(parts))
       IN IF i = 0 THEN [dir |-> None, pattern |-> pattern]
          ELSE IF i < Len(parts)
            THEN [dir |-> Some(SubSeq(parts, 1, i)),
                  pattern |-> JoinPath(SubSeq(parts, i + 1, Len(parts)))]
            ELSE [dir |-> Some(parts), pattern |-> <<"*">>]

\* matches.sort(key=lambda m: (m.priority, -m.modified_date)) sorted by the
\* modified time alone.
sort_by_priority_ignoring_priority(ms) ==
  stable_sort(ms, [i \in 1..Len(ms) |-> <<0, 0 - ms[i].modified_date>>])

\* matches.sort(key=lambda m: (m.priority, -m.modified_date))
sort_by_priority(ms) ==
  stable_sort(ms, [i \in 1..Len(ms) |-> <<ms[i].priority, 0 - ms[i].modified_date>>])

\* matches.sort(key=lambda m: -m.modified_date)
sort_by_date(ms) ==
  stable_sort(ms, [i \in 1..Len(ms) |-> <<0, 0 - ms[i].modified_date>>])

(***************************************************************************)
(* history.py: HistoryFinder, constructed without additions to the skip    *)
(* sets.  The line and token counts of an entry are left out; every file   *)
(* of the tree can be read.  The git columns are not requested.            *)
(***************************************************************************)
MaxCount == 2

UTILITY_DOTFILE_PATTERNS ==
  <<<<".", "g", "i", "t", "i", "g", "n", "o", "r", "e">>,
   <<".", "g", "i", "t", "a", "t", "t", "r", "i", "b", "u", "t", "e", "s">>,
   <<".", "e", "n", "v">>,
   <<".", "e", "n", "v", "*">>,
   <<".", "c", "l", "a", "u", "d", "e", "*">>,
   <<".", "*", "l", "o", "c", "a", "l">>,
   <<".", "e", "d", "i", "t", "o", "r", "c", "o", "n", "f", "i", "g">>,
   <<".", "p", "r", "e", "t", "t", "i", "e", "r", "r", "c", "*">>,
   <<".", "e", "s", "l", "i", "n", "t", "r", "c", "*">>,
   <<".", "n", "v", "m", "r", "c">>,
   <<".", "p", "y", "t", "h", "o", "n", "-", "v", "e", "r", "s", "i", "o", "n">>,
   <<".", "t", "o", "o", "l", "-", "v", "e", "r", "s", "i", "o", "n", "s">>,
   <<".", "d", "o", "c", "k", "e", "r", "i", "g", "n", "o", "r", "e">>>>
HISTORY_SKIP_PATTERNS ==
  <<<<"*", ".", "d", "b", "-", "w", "a", "l">>,
   <<"*", ".", "d", "b", "-", "s", "h", "m">>,
   <<"*", ".", "l", "o", "c", "k">>,
   <<".", "c", "o", "v", "e", "r", "a", "g", "e">>,
   <<"*", ".", "e", "g", "g", "-", "i", "n", "f", "o">>,
   <<"*", ".", "l", "o", "g">>>>
HISTORY_SKIP_DIRS ==
  {<<".", "g", "i", "t">>,
   <<".", "v", "e", "n", "v">>,
   <<"v", "e", "n", "v">>,
   <<"_", "_", "p", "y", "c", "a", "c", "h", "e", "_", "_">>,
   <<"n", "o", "d", "e", "_", "m", "o", "d", "u", "l", "e", "s">>,
   <<".", "p", "y", "t", "e", "s", "t", "_", "c", "a", "c", "h", "e">>,
   <<".", "m", "y", "p", "y", "_", "c", "a", "c", "h", "e">>,
   <<".", "r", "u", "f", "f", "_", "c", "a", "c", "h", "e">>,
   <<".", "i", "d", "e", "a">>,
   <<".", "v", "s", "c", "o", "d", "e">>,
   <<".", "t", "o", "x">>,
   <<"d", "i", "s", "t">>,
   <<"b", "u", "i", "l", "d">>,
   <<"*", ".", "e", "g", "g", "-", "i", "n", "f", "o">>}

\* _should_skip_dir
should_skip_dir(dirname) ==
  \/ dirname \in HISTORY_SKIP_DIRS
  \/ \E pattern \in HISTORY_SKIP_DIRS : Contains(pattern, "*") /\ fnmatch(dirname, pattern)

\* _is_utility_dotfile
is_utility_dotfile(filename) ==
  \E i \in 1..Len(UTILITY_DOTFILE_PATTERNS) :
    fnmatch(lower(filename), lower(UTILITY_DOTFILE_PATTERNS[i]))

\* _should_skip_file
should_skip_file(filename) ==
  \/ \E i \in 1..Len(HISTORY_SKIP_PATTERNS) :
       fnmatch(lower(filename), lower(HISTORY_SKIP_PATTERNS[i]))
  \/ startswith(filename, ".") /\ ~is_utility_dotfile(filename)

\* A _normalize_extension that adds the dot to every token.
normalize_extension_always_dotting(ext) ==
  IF Contains(ext, "*") \/ Contains(ext, "?") THEN lower(ext)
  ELSE lower(<<"*", ".">> \o ext)

\* _normalize_extension
normalize_extension(ext) ==
  IF Contains(ext, "*") \/ Contains(ext, "?") THEN lower(ext)
  ELSE lower(<<"*">> \o (IF ~startswith(ext, ".") THEN <<".">> \o ext ELSE ext))

\* _matches_filetypes
matches_filetypes(filename, patterns) ==
  \E i \in 1..Len(patterns) : fnmatch(lower(filename), patterns[i])

\* Path.suffix: from the last dot of the name on, when that dot is neither
\* the first nor the last character.
suffix(name) ==
  LET dots == {i \in 2..(Len(name) - 1) : name[i] = "."} IN
  IF dots = {} THEN <<>>
  ELSE SubSeq(name, CHOOSE i \in dots : \A j \in dots : j <= i, Len(name))

\* _create_entry
create_entry(files, file_path, base_dir) ==
  [path |-> file_path,
   relative_path |-> JoinPath(relative_to(file_path, base_dir)),
   modified_date |-> files[file_path],
   extension |-> IF suffix(file_path[Len(file_path)]) # <<>>
                   THEN suffix(file_path[Len(file_path)])
                   ELSE <<"(", "n", "o", "n", "e", ")">>]

\* The walk of find_recent (lines 114-142): the entries in walk order.
recent_entries(files, directory, filetypes) ==
  LET normalized == IF filetypes # None /\ filetypes[1] # <<>>
                      THEN [i \in 1..Len(filetypes[1]) |->
                              normalize_extension(filetypes[1][i])]
                      ELSE <<>>
      seen == os_walk(directory, {d \in AllDirNames : should_skip_dir(d)})
      kept == SelectSeq(seen, LAMBDA f :
                /\ ~should_skip_file(f[Len(f)])
                /\ normalized # <<>> => matches_filetypes(f[Len(f)], normalized))
  IN [i \in 1..Len(kept) |-> create_entry(files, kept[i], directory)]

\* entries.sort(key=lambda e: e.modified_date, reverse=True): stable, the
\* entries of equal time keep their order.
sort_recent(es) ==
  stable_sort(es, [i \in 1..Len(es) |-> <<0, 0 - es[i].modified_date>>])

\* A slice that is empty for a negative bound.
slice_clamped(seq, count) ==
  IF count >= Len(seq) THEN seq
  ELSE IF count >= 0 THEN SubSeq(seq, 1, count)
  ELSE <<>>

\* seq[:count]: the first count elements; for a negative count all but the
\* last -count elements.
slice_to(seq, count) ==
  IF count >= Len(seq) THEN seq
  ELSE IF count >= 0 THEN SubSeq(seq, 1, count)
  ELSE SubSeq(seq, 1, Len(seq) + count)

\* find_recent as a whole (git columns not requested).
find_recent(files, directory, count, filetypes) ==
  IF ~is_dir(directory) THEN <<>>
  ELSE slice_to(sort_recent(recent_entries(files, directory, filetypes)), count)

(***************************************************************************)
(* One call of FileFinder.find_files or of HistoryFinder.find_recent on    *)
(* the tree.                                                               *)
(***************************************************************************)
\* The configured search roots: two entries, the first /r (with or without
\* its subdirectory s excluded) or a missing directory, the second /r again,
\* /r/s inside it, or /q beside it.
SearchDirEntries(paths, excludes) ==
  [path : paths, priority : {1, 2}, recursive : BOOLEAN, exclude : excludes]
SearchConfigs ==
  {<<a, b>> : a \in SearchDirEntries({<<Slash, N_r>>, <<Slash, N_zz>>}, {{}, {N_s}}),
              b \in SearchDirEntries({<<Slash, N_r>>, <<Slash, N_r, N_s>>, <<Slash, N_q>>},
                                     {{}})}
DefaultConfig ==
  <<[path |-> <<Slash, N_q>>, priority |-> 1, recursive |-> TRUE, exclude |-> {}],
    [path |-> <<Slash, N_r>>, priority |-> 2, recursive |-> TRUE, exclude |-> {}]>>

RelativePatterns == {<<"*">>, <<"*", ".", "p", "y">>, <<"s", "/", "*", ".", "m", "d">>, <<>>}
ExplicitPatterns == {<<"/", "r", "/", "s", "/", "*", ".", "m", "d">>, <<"/", "r", "/", "s">>, <<"/", "r", "/", "n", "o", "d", "e", "_", "m", "o", "d", "u", "l", "e", "s", "/", "*">>, <<"/", "r", "/", "z", "z", "/", "*", ".", "p", "y">>, <<"/", "z", "z", "/", "*">>, <<"~", "/", "s", "/", "c", ".", "m", "d">>}
LocalDirs == {<<Slash, N_r>>, <<Slash, N_r, N_node_modules>>, <<Slash, N_zz>>}
RecentDirs == {<<Slash>>, <<Slash, N_r>>, <<Slash, N_r, N_node_modules>>, <<Slash, N_zz>>}
FiletypeFilters ==
  {None, Some(<<<<"m", "d">>>>), Some(<<<<".", "m", "d">>>>), Some(<<<<"M", "D">>>>), Some(<<<<".", "M", "D">>>>),
   Some(<<<<"*", ".", "p", "?">>>>), Some(<<<<"p", "y">>, <<"m", "d">>>>), Some(<<<<".", "p", "y">>, <<".", "m", "d">>>>)}

FindCall(pattern, local_dir, search_dirs) ==
  [op |-> "find_files", pattern |-> pattern, local_dir |-> local_dir,
   search_dirs |-> search_dirs, directory |-> <<>>, count |-> 0, filetypes |-> None]
RecentCall(directory, count, filetypes) ==
  [op |-> "find_recent", pattern |-> <<>>, local_dir |-> None,
   search_dirs |-> <<>>, directory |-> directory, count |-> count,
   filetypes |-> filetypes]

FindCalls ==
  {FindCall(p, Some(d), sorted_search_dirs(DefaultConfig)) :
     p \in RelativePatterns, d \in LocalDirs}
  \cup {FindCall(p, None, sorted_search_dirs(DefaultConfig)) : p \in ExplicitPatterns}
  \cup {FindCall(p, None, sorted_search_dirs(c)) :
          p \in RelativePatterns, c \in SearchConfigs}
RecentCalls ==
  {RecentCall(d, n, ft) :
     d \in RecentDirs, n \in (0 - MaxCount)..MaxCount, ft \in FiletypeFilters}

InitFiles ==
  /\ SyncIdle /\ MatchIdle /\ TreeIdle /\ ProcIdle /\ LateIdle
  /\ fs \in FsStates
  /\ call \in FindCalls \cup RecentCalls
  /\ fpc = "start"
  /\ rootIdx = 1
  /\ matches = <<>>
  /\ searched = <<>>
  /\ returned = <<>>

Searched(dir, pattern, priority) == [dir |-> dir, pattern |-> pattern, priority |-> priority]

\* find_files lines 80-91: local_dir is given.
SearchLocal ==
  /\ fpc = "start" /\ call.op = "find_files" /\ call.local_dir # None
  /\ LET local_path == call.local_dir[1] IN
       IF is_dir(local_path)
         THEN /\ matches' = search_directory(fs, local_path, call.pattern, 0, TRUE, {})
              /\ searched' = <<Searched(local_path, call.pattern, 0)>>
         ELSE UNCHANGED <<matches, searched>>
  /\ fpc' = "sort"
  /\ UNCHANGED <<fs, call, rootIdx, returned, syncAllVars, lateVars, matchVars, treeVars, procVars>>

\* find_files lines 98-108: the pattern is looked at for an explicit
\* directory; one that is found is searched.
SearchExplicit ==
  /\ fpc = "start" /\ call.op = "find_files" /\ call.local_dir = None
  /\ LET e == extract_explicit_directory(call.pattern) IN
       IF e.dir # None
         THEN /\ matches' = search_directory(fs, e.dir[1], e.pattern, 0, TRUE, {})
              /\ searched' = <<Searched(e.dir[1], e.pattern, 0)>>
              /\ fpc' = "sort"
         ELSE /\ fpc' = "roots"
              /\ UNCHANGED <<matches, searched>>
  /\ UNCHANGED <<fs, call, rootIdx, returned, syncAllVars, lateVars, matchVars, treeVars, procVars>>

\* find_files lines 93-94 and 110-111: sorted by date, returned.
ReturnByDate ==
  /\ fpc = "sort"
  /\ returned' = sort_by_date(matches)
  /\ fpc' = "done"
  /\ UNCHANGED <<fs, call, rootIdx, matches, searched, syncAllVars, lateVars, matchVars,
                 treeVars, procVars>>

\* find_files lines 113-131: one turn of the loop over self.search_dirs.
SearchRoot ==
  /\ fpc = "roots" /\ rootIdx <= Len(call.search_dirs)
  /\ LET search_dir == call.search_dirs[rootIdx] IN
       IF is_dir(search_dir.path)
         THEN /\ matches' = matches \o search_directory(fs, search_dir.path,
                                        call.pattern, search_dir.priority,
                                        search_dir.recursive, search_dir.exclude)
              /\ searched' = Append(searched, Searched(search_dir.path, call.pattern,
                                                       search_dir.priority))
         ELSE UNCHANGED <<matches, searched>>
  /\ rootIdx' = rootIdx + 1
  /\ UNCHANGED <<fs, call, fpc, returned, syncAllVars, lateVars, matchVars, treeVars, procVars>>

\* find_files lines 133-136: sorted by priority, then date, returned.
ReturnByPriority ==
  /\ fpc = "roots" /\ rootIdx > Len(call.search_dirs)
  /\ returned' = sort_by_priority(matches)
  /\ fpc' = "done"
  /\ UNCHANGED <<fs, call, rootIdx, matches, searched, syncAllVars, lateVars, matchVars,
                 treeVars, procVars>>

\* find_recent lines 110-142: the directory is walked.
RecentWalk ==
  /\ fpc = "start" /\ call.op = "find_recent"
  /\ IF is_dir(call.directory)
       THEN /\ matches' = recent_entries(fs, call.directory, call.filetypes)
            /\ searched' = <<Searched(call.directory, <<>>, 0)>>
            /\ fpc' = "truncate"
            /\ UNCHANGED returned
       ELSE /\ returned' = <<>>
            /\ fpc' = "done"
            /\ UNCHANGED <<matches, searched>>
  /\ UNCHANGED <<fs, call, rootIdx, syncAllVars, lateVars, matchVars, treeVars, procVars>>

\* find_recent lines 144-152: sorted, cut to count, returned.
RecentReturn ==
  /\ fpc = "truncate"
  /\ returned' = slice_to(sort_recent(matches), call.count)
  /\ fpc' = "done"
  /\ UNCHANGED <<fs, call, rootIdx, matches, searched, syncAllVars, lateVars, matchVars,
                 treeVars, procVars>>

NextFiles ==
  \/ SearchLocal
  \/ SearchExplicit
  \/ ReturnByDate
  \/ SearchRoot
  \/ ReturnByPriority
  \/ RecentWalk
  \/ RecentReturn

SpecFiles == InitFiles /\ [][NextFiles]_vars

(***************************************************************************)
(* Properties of find_files and find_recent (checked under SpecFiles).     *)
(***************************************************************************)
FindDone == fpc = "done" /\ call.op = "find_files"
RecentDone == fpc = "done" /\ call.op = "find_recent"
ReturnedPaths == {returned[i].path : i \in 1..Len(returned)}

\* C11: within one find_files call no file path appears twice in the
\* result, also when search roots contain one another or are listed twice.
C11_MatchesUniqueByPath ==
  FindDone =>
    \A i, j \in 1..Len(returned) : returned[i].path = returned[j].path => i = j

\* Whether returned holds the elements of matches, each as often.
IsPermutationOfMatches ==
  /\ Len(returned) = Len(matches)
  /\ \A m \in {matches[i] : i \in 1..Len(matches)} :
       Cardinality({i \in 1..Len(matches) : matches[i] = m})
         = Cardinality({i \in 1..Len(returned) : returned[i] = m})

\* C12: the result of find_files over the priority roots holds the collected
\* matches ordered by ascending priority and, among equal priorities, by
\* descending modified time; a match of a priority-1 root comes before a
\* match of equal recency of a priority-2 root.
C12_OrderedByPriorityThenDate ==
  (FindDone /\ rootIdx > 1) =>
    /\ IsPermutationOfMatches
    /\ \A i \in 1..(Len(returned) - 1) :
         \/ returned[i].priority < returned[i + 1].priority
         \/ /\ returned[i].priority = returned[i + 1].priority
            /\ returned[i].modified_date >= returned[i + 1].modified_date
    /\ \A i, j \in 1..Len(returned) :
         (/\ returned[i].priority = 1 /\ returned[j].priority = 2
          /\ returned[i].modified_date = returned[j].modified_date) => i < j

\* Two roots of different priority, a match of equal recency in each, and a
\* priority-2 match that is more recent than a priority-1 match.
C12_Witness ==
  /\ FindDone /\ rootIdx > 1
  /\ \E i, j \in 1..Len(returned) :
       /\ returned[i].priority = 1 /\ returned[j].priority = 2
       /\ returned[i].modified_date = returned[j].modified_date
  /\ \E i, j \in 1..Len(returned) :
       /\ returned[i].priority = 1 /\ returned[j].priority = 2
       /\ returned[i].modified_date < returned[j].modified_date

\* The skip set of the walker of the call.
SkipSet == IF call.op = "find_files" THEN skip_dirs ELSE HISTORY_SKIP_DIRS

\* C13 as stated: no returned file lies under a directory whose name is in
\* the skip set, whatever the pattern, the search mode and the root.
C13_NothingUnderSkippedName ==
  fpc = "done" =>
    \A i \in 1..Len(returned) :
      \A k \in 2..(Len(returned[i].path) - 1) : returned[i].path[k] \notin SkipSet

\* C13 amended: no returned file lies under a directory below the root of
\* its walk whose name is in the skip set: every returned file was found
\* from a searched root with no skipped name between that root and the file.
C13_NothingUnderSkippedNameBelowRoot ==
  fpc = "done" =>
    \A i \in 1..Len(returned) :
      \E n \in 1..Len(searched) :
        /\ IsUnder(returned[i].path, searched[n].dir)
        /\ \A k \in (Len(searched[n].dir) + 1)..(Len(returned[i].path) - 1) :
             returned[i].path[k] \notin SkipSet

\* The tree of the claim: the files of /r are returned, .git/config and
\* node_modules/x.js are not, for the pattern * that matches them.
C13_Witness ==
  /\ FindDone
  /\ call.local_dir = Some(<<Slash, N_r>>)
  /\ call.pattern = <<"*">>
  /\ {<<Slash, N_r, N_a_py>>, <<Slash, N_r, N_b_py>>} \subseteq ReturnedPaths
  /\ matches_pattern(N_x_js, call.pattern, <<Slash, N_r, N_node_modules, N_x_js>>,
                     <<Slash, N_r>>)

\* The files find_recent may return: under the directory, not under a
\* skipped directory below it, not a skipped file, of a requested type.
EligiblePaths ==
  {f \in AllFiles :
     /\ IsUnder(f, call.directory)
     /\ \A k \in (Len(call.directory) + 1)..(Len(f) - 1) : ~should_skip_dir(f[k])
     /\ ~should_skip_file(f[Len(f)])
     /\ (call.filetypes # None /\ call.filetypes[1] # <<>>) =>
          \E i \in 1..Len(call.filetypes[1]) :
            fnmatch(lower(f[Len(f)]), normalize_extension(call.filetypes[1][i]))}

\* C14: find_recent returns the eligible files most recent first, cut to
\* count: sorted by descending modified time, no returned file older than
\* an eligible file left out, and no more than max(count, 0) entries, for
\* every integer count.
C14_MostRecentFirstTruncated ==
  RecentDone =>
    /\ Len(returned) <= (IF call.count > 0 THEN call.count ELSE 0)
    /\ ReturnedPaths \subseteq EligiblePaths
    /\ \A i \in 1..(Len(returned) - 1) :
         returned[i].modified_date >= returned[i + 1].modified_date
    /\ \A f \in EligiblePaths \ ReturnedPaths :
         \A i \in 1..Len(returned) : returned[i].modified_date >= fs[f]

\* The same filter with a dot before every token that has neither a
\* wildcard nor a leading dot.
HasWildcard(token) == Contains(token, "*") \/ Contains(token, "?")
Dotted(tokens) ==
  [i \in 1..Len(tokens) |->
     IF HasWildcard(tokens[i]) \/ startswith(tokens[i], ".") THEN tokens[i]
     ELSE <<".">> \o tokens[i]]

\* C18: a filter token without wildcard gives the same result with and
\* without its leading dot, both forms normalizing to the suffix pattern
\* "*." + token (in lower case, as the file names are compared); a token
\* with a wildcard is the pattern itself.
C18_DotOrNoDot ==
  (RecentDone /\ call.filetypes # None) =>
    LET tokens == call.filetypes[1] IN
    /\ returned = find_recent(fs, call.directory, call.count, Some(Dotted(tokens)))
    /\ \A i \in 1..Len(tokens) :
         IF HasWildcard(tokens[i])
           THEN normalize_extension(tokens[i]) = lower(tokens[i])
           ELSE /\ normalize_extension(tokens[i]) = normalize_extension(Dotted(tokens)[i])
                /\ normalize_extension(Dotted(tokens)[i]) = lower(<<"*">> \o Dotted(tokens)[i])

C18_Witness ==
  /\ RecentDone
  /\ call.filetypes = Some(<<<<"m", "d">>>>)
  /\ {<<Slash, N_r, N_s, N_c_md>>, <<Slash, N_r, N_s, N_E_MD>>} \subseteq ReturnedPaths

\* The prefixes of the pattern's parts that are existing directories.
IsExplicitPattern == startswith(call.pattern, "/") \/ startswith(call.pattern, "~")
PatternParts == expanduser(Parts(call.pattern))
DirPrefixes == {i \in 1..Len(PatternParts) : is_dir(SubSeq(PatternParts, 1, i))}
LongestDirPrefix == CHOOSE i \in DirPrefixes : \A j \in DirPrefixes : j <= i

\* C19: without local_dir, a pattern that starts with "/" or "~" is searched
\* in the longest prefix of its parts that is an existing directory, and
\* only there, with priority 0 and with the remaining parts ("*" when none
\* remain) as the pattern; the configured roots are searched only when no
\* such prefix is found.
C19_ExplicitDirectoryPrefix ==
  (FindDone /\ call.local_dir = None) =>
    /\ (IsExplicitPattern /\ DirPrefixes # {}) =>
         /\ searched =
              <<Searched(SubSeq(PatternParts, 1, LongestDirPrefix),
                         IF LongestDirPrefix < Len(PatternParts)
                           THEN JoinPath(SubSeq(PatternParts, LongestDirPrefix + 1,
                                                Len(PatternParts)))
                           ELSE <<"*">>,
                         0)>>
         /\ \A i \in 1..Len(returned) :
              /\ returned[i].priority = 0
              /\ IsUnder(returned[i].path, SubSeq(PatternParts, 1, LongestDirPrefix))
    /\ (\E n \in 1..Len(searched) :
          \E k \in 1..Len(call.search_dirs) :
            searched[n] = Searched(call.search_dirs[k].path, call.pattern,
                                   call.search_dirs[k].priority))
         => ~(IsExplicitPattern /\ DirPrefixes # {})

\* /r/s/*.md: /r/s is searched although / and /r are directories too.
C19_Witness ==
  /\ FindDone /\ call.local_dir = None
  /\ call.pattern = <<"/", "r", "/", "s", "/", "*", ".", "m", "d">>
  /\ searched = <<Searched(<<Slash, N_r, N_s>>, <<"*", ".", "m", "d">>, 0)>>
  /\ Len(returned) = 2

\* ---------------------------------------------------------------------------
\* ChatGPT export: the traversal of the conversation tree
\* (collectors/chatgpt_export.py, _traverse_conversation_tree).
\*
\* mapping is the mapping object of an export file: its keys in the order of
\* the file, each with its node's parent, children and message.  The file is
\* written outside the program, so the pointers are unconstrained: a parent
\* or a child may be any id, one absent from the mapping included.  A message
\* is identified by the node that holds it.
\* ---------------------------------------------------------------------------

\* The iterations the model follows a loop for.
MaxSteps == 5

NodeIds == {"a", "b"}
\* The ids a pointer can hold: the nodes and one id the mapping lacks.
PointerIds == NodeIds \cup {"z"}

NodeParents == {None} \cup {Some(p) : p \in PointerIds}
NodeChildren ==
  {<<>>} \cup {<<c>> : c \in PointerIds}
  \cup {<<"a", "b">>, <<"b", "a">>, <<"b", "z">>, <<"z", "b">>}
\* The parts of a text message: one part with text, or one empty part.
TextParts == <<<<"h", "i">>>>
EmptyParts == <<<<>>>>
NodeMessage(is_hidden, parts) ==
  [is_visually_hidden_from_conversation |-> is_hidden,
   content_type |-> "text", parts |-> parts]
\* No message, a message, a message without text, a message hidden from the
\* conversation.
NodeMessages ==
  {None, Some(NodeMessage(FALSE, TextParts)), Some(NodeMessage(FALSE, EmptyParts)),
         Some(NodeMessage(TRUE, TextParts))}

MappingEntry(key, nodeParent, nodeChildren, nodeMessage) ==
  [key |-> key, parent |-> nodeParent, children |-> nodeChildren, message |-> nodeMessage]

Mappings ==
  {<<MappingEntry("a", pa, ca, ma), MappingEntry("b", pb, cb, mb)>> :
     pa \in NodeParents, ca \in NodeChildren, ma \in NodeMessages,
     pb \in NodeParents, cb \in NodeChildren, mb \in NodeMessages}

\* mapping.get(id): the node in a one-element tuple, None when the id is absent.
mapping_get(m, id) ==
  IF \E i \in 1..Len(m) : m[i].key = id
    THEN Some(m[CHOOSE i \in 1..Len(m) : m[i].key = id])
    ELSE None

\* [nid for nid, node in mapping.items() if not node.get("parent")]
root_nodes(m) ==
  LET RECURSIVE roots(_)
      roots(i) ==
        IF i > Len(m) THEN <<>>
        ELSE (IF m[i].parent = None THEN <<m[i].key>> ELSE <<>>) \o roots(i + 1)
  IN roots(1)

\* A reversal that returns the list as it is.
reversed_not(seq) == seq
reversed(seq) == [i \in 1..Len(seq) |-> seq[Len(seq) + 1 - i]]

\* A choice of the first child.
first_child(children) == children[1]
\* children[-1]
last_child(children) == children[Len(children)]

\* messages.append(message) when the node has a message that is not hidden.
append_message(msgs, node) ==
  IF node.message # None /\ ~node.message[1].is_visually_hidden_from_conversation
    THEN Append(msgs, node.key)
    ELSE msgs

InitTree ==
  /\ mapping \in Mappings
  /\ current_node \in {None} \cup {Some(n) : n \in PointerIds}
  /\ tpc = "start"
  /\ node_id = None
  /\ raw_messages = <<>>
  /\ steps = 0
  /\ extracted = <<>>
  /\ SyncIdle /\ MatchIdle /\ FilesIdle /\ ProcIdle /\ LateIdle

\* if current_node: node_id = current_node
EnterFromLeaf ==
  /\ tpc = "start"
  /\ current_node # None
  /\ node_id' = current_node
  /\ tpc' = "to_root"
  /\ UNCHANGED <<mapping, current_node, extracted, raw_messages, steps, syncAllVars, lateVars, matchVars, filesVars, procVars>>

\* One iteration of "while node_id:" that reaches "node_id = node.get('parent')".
StepToParent ==
  /\ tpc = "to_root"
  /\ steps < MaxSteps
  /\ node_id # None
  /\ mapping_get(mapping, node_id[1]) # None
  /\ LET node == mapping_get(mapping, node_id[1])[1] IN
       /\ raw_messages' = append_message(raw_messages, node)
       /\ node_id' = node.parent
  /\ steps' = steps + 1
  /\ UNCHANGED <<mapping, current_node, extracted, tpc, syncAllVars, lateVars, matchVars, filesVars, procVars>>

\* The loop ends (node_id is None, or the mapping lacks it) and the reversed
\* list is returned.
ReturnFromRoot ==
  /\ tpc = "to_root"
  /\ (IF node_id = None THEN TRUE ELSE mapping_get(mapping, node_id[1]) = None)
  /\ raw_messages' = reversed(raw_messages)
  /\ tpc' = "done"
  /\ UNCHANGED <<mapping, current_node, extracted, node_id, steps, syncAllVars, lateVars, matchVars, filesVars, procVars>>

\* Without a current_node: the first node without a parent, or no messages.
EnterFromRoot ==
  /\ tpc = "start"
  /\ current_node = None
  /\ IF root_nodes(mapping) = <<>>
       THEN tpc' = "done" /\ node_id' = node_id
       ELSE tpc' = "to_leaf" /\ node_id' = Some(root_nodes(mapping)[1])
  /\ UNCHANGED <<mapping, current_node, extracted, raw_messages, steps, syncAllVars, lateVars, matchVars, filesVars, procVars>>

\* One iteration of "while curr_id:" that reaches "curr_id = children[-1]".
StepToLastChild ==
  /\ tpc = "to_leaf"
  /\ steps < MaxSteps
  /\ node_id # None
  /\ mapping_get(mapping, node_id[1]) # None
  /\ LET node == mapping_get(mapping, node_id[1])[1] IN
       /\ node.children # <<>>
       /\ raw_messages' = append_message(raw_messages, node)
       /\ node_id' = Some(last_child(node.children))
  /\ steps' = steps + 1
  /\ UNCHANGED <<mapping, current_node, extracted, tpc, syncAllVars, lateVars, matchVars, filesVars, procVars>>

\* The last iteration: the mapping lacks curr_id, or the node has no children
\* and its message is the last one appended.
ReturnFromLeaf ==
  /\ tpc = "to_leaf"
  /\ IF mapping_get(mapping, node_id[1]) = None
       THEN raw_messages' = raw_messages
       ELSE LET node == mapping_get(mapping, node_id[1])[1] IN
              /\ node.children = <<>>
              /\ raw_messages' = append_message(raw_messages, node)
  /\ tpc' = "done"
  /\ UNCHANGED <<mapping, current_node, extracted, node_id, steps, syncAllVars, lateVars, matchVars, filesVars, procVars>>

\* "\n".join(parts): the parts with a newline between them.
\* The parts of the model hold no white space, so that the strip() of
\* line 246 removes nothing.
RECURSIVE join_lines(_)
join_lines(parts) ==
  IF parts = <<>> THEN <<>>
  ELSE IF Len(parts) = 1 THEN parts[1]
  ELSE parts[1] \o <<"\n">> \o join_lines(Tail(parts))

\* The metadata dict _extract_messages starts from (lines 169-179) for a
\* text message without attachments and model.
text_metadata(content_type) ==
  [content_type |-> content_type, has_code |-> FALSE, has_thinking |-> FALSE,
   has_web_search |-> FALSE, has_multimodal |-> FALSE, has_execution |-> FALSE,
   model |-> None, attachments |-> <<>>]

\* any(metadata.values()): a non-empty string, True, a non-empty list.
any_metadata_value(md) ==
  \/ md.content_type # ""
  \/ md.has_code \/ md.has_thinking \/ md.has_web_search
  \/ md.has_multimodal \/ md.has_execution
  \/ md.model # None
  \/ md.attachments # <<>>

\* The loop of _extract_messages (146-264) over the raw messages, each the
\* message of the node named: the Message appended, or none when skipped.
RECURSIVE extract_messages(_, _)
extract_messages(m, raw) ==
  IF raw = <<>> THEN <<>>
  ELSE LET msg_data == mapping_get(m, raw[1])[1].message[1]
           text_parts == SelectSeq(msg_data.parts, LAMBDA part : part # <<>>)
           content == join_lines(text_parts)
           metadata == text_metadata(msg_data.content_type)
       IN (IF content = <<>> /\ ~any_metadata_value(metadata)
             THEN <<>>
             ELSE <<[id |-> raw[1], content |-> content]>>)
          \o extract_messages(m, Tail(raw))

\* _extract_messages after the traversal has returned.
ExtractMessages ==
  /\ tpc = "done"
  /\ extracted' = extract_messages(mapping, raw_messages)
  /\ tpc' = "extracted"
  /\ UNCHANGED <<mapping, current_node, node_id, raw_messages, steps, syncAllVars, lateVars, matchVars, filesVars, procVars>>

NextTree ==
  \/ EnterFromLeaf
  \/ StepToParent
  \/ ReturnFromRoot
  \/ EnterFromRoot
  \/ StepToLastChild
  \/ ReturnFromLeaf
  \/ ExtractMessages

SpecTree == InitTree /\ [][NextTree]_vars

\* C15: the traversal of a mapping ends and emits no node twice, whether the
\* export names a current leaf or not, and whatever the parent and child
\* pointers are, cycles included.  A traversal that ends visits each node of
\* the mapping at most once, so its loop makes no more iterations than the
\* mapping has nodes, and no node appears twice in its list of messages.
C15_TraversalEndsWithoutRepeats ==
  tpc # "idle" =>
    /\ steps <= Len(mapping)
    /\ \A i, j \in 1..Len(raw_messages) : raw_messages[i] = raw_messages[j] => i = j

\* ---------------------------------------------------------------------------
\* External processes: the git queries of a hist call (core/git_utils.py,
\* HistoryFinder._add_git_info) and the rclone invocations of a sync run
\* (cloud.py, called by run_sync).
\*
\* An external process exits when it does, with any return code and output,
\* or never: nothing obliges it to exit.  subprocess.run(timeout=n) waits at
\* most n seconds for it; a Popen object read with readline has no clock.
\* ---------------------------------------------------------------------------

\* The entries a hist call asks the git information of.
MaxEntries == 1

\* The timeout arguments of subprocess.run, in seconds.
GitTimeout == 5
ListRemotesTimeout == 10
PullTimeout == 60

\* The timeout an invocation is made with: None for the Popen of push_staging.
timeout_of(cmd) ==
  CASE cmd \in {"git rev-parse", "git status", "git ls-files", "git log"} -> Some(GitTimeout)
    [] cmd = "rclone listremotes" -> Some(ListRemotesTimeout)
    [] cmd = "rclone copy" -> Some(PullTimeout)
    [] cmd = "rclone sync" -> None

\* The command invoked at a position of the operation.
command_at(pos) ==
  CASE pos \in {"get_git_root", "file_git_root"} -> "git rev-parse"
    [] pos = "git_status" -> "git status"
    [] pos = "git_ls_files" -> "git ls-files"
    [] pos = "git_log" -> "git log"
    [] pos \in {"pull_listremotes", "push_listremotes"} -> "rclone listremotes"
    [] pos = "pull_copy" -> "rclone copy"
    [] pos = "push_sync" -> "rclone sync"

\* How an invocation ends: return code 0 with or without output, another
\* return code, or TimeoutExpired.
ExitResults == {"ok", "ok_empty", "failed"}

HistJob(n, include_commit) ==
  [op |-> "hist", entries |-> n, include_commit |-> include_commit, git_root |-> FALSE]
SyncJob == [op |-> "sync", entries |-> 0, include_commit |-> FALSE, git_root |-> FALSE]
Jobs == {HistJob(n, c) : n \in 0..MaxEntries, c \in BOOLEAN} \cup {SyncJob}

\* for entry in entries: get_file_status(file_path, git_root), which looks
\* for the root of the file when the directory had none.
next_entry(j) ==
  IF j.entries = 0 THEN "done"
  ELSE IF j.git_root THEN "git_status" ELSE "file_git_root"

entry_done(j) == [j EXCEPT !.entries = @ - 1]

\* After get_file_status: get_file_last_commit for git_detail inside a repository.
after_status(j) ==
  IF j.include_commit /\ j.git_root
    THEN [job |-> j, ppc |-> "git_log"]
    ELSE [job |-> entry_done(j), ppc |-> next_entry(entry_done(j))]

\* The position the operation goes to when the invocation at pos ends with res.
after_invocation(j, pos, res) ==
  CASE pos = "get_git_root" ->
         LET found == [j EXCEPT !.git_root = (res = "ok")]
         IN [job |-> found, ppc |-> next_entry(found)]
    [] pos = "file_git_root" ->
         IF res = "ok" THEN [job |-> j, ppc |-> "git_status"]
         ELSE [job |-> entry_done(j), ppc |-> next_entry(entry_done(j))]
    [] pos = "git_status" ->
         IF res = "ok_empty" THEN [job |-> j, ppc |-> "git_ls_files"] ELSE after_status(j)
    [] pos = "git_ls_files" -> after_status(j)
    [] pos = "git_log" -> [job |-> entry_done(j), ppc |-> next_entry(entry_done(j))]
    [] pos = "pull_listremotes" ->
         [job |-> j, ppc |-> IF res = "ok" THEN "pull_copy" ELSE "push_listremotes"]
    [] pos = "pull_copy" -> [job |-> j, ppc |-> "push_listremotes"]
    [] pos = "push_listremotes" ->
         [job |-> j, ppc |-> IF res = "ok" THEN "push_sync" ELSE "done"]
    [] pos = "push_sync" -> [job |-> j, ppc |-> "done"]

InitProc ==
  /\ job \in Jobs
  /\ ppc = (IF job.op = "hist" THEN "get_git_root" ELSE "pull_listremotes")
  /\ proc = None
  /\ outcomes = <<>>
  /\ SyncIdle /\ MatchIdle /\ FilesIdle /\ TreeIdle /\ LateIdle

\* subprocess.run(cmd, timeout=n): the process starts and the clock with it.
subprocess_run ==
  /\ ppc # "done"
  /\ proc = None
  /\ timeout_of(command_at(ppc)) # None
  /\ proc' = Some([cmd |-> command_at(ppc), timeout |-> timeout_of(command_at(ppc)), elapsed |-> 0])
  /\ UNCHANGED <<job, ppc, outcomes, syncAllVars, lateVars, matchVars, filesVars, treeVars>>

\* subprocess.Popen(cmd) followed by the readline loop: no clock.
subprocess_Popen ==
  /\ ppc # "done"
  /\ proc = None
  /\ timeout_of(command_at(ppc)) = None
  /\ proc' = Some([cmd |-> command_at(ppc), timeout |-> None, elapsed |-> 0])
  /\ UNCHANGED <<job, ppc, outcomes, syncAllVars, lateVars, matchVars, filesVars, treeVars>>

\* A second of the wait of subprocess.run passes.
SecondPasses ==
  /\ proc # None
  /\ proc[1].timeout # None
  /\ proc[1].elapsed < proc[1].timeout[1]
  /\ proc' = Some([proc[1] EXCEPT !.elapsed = @ + 1])
  /\ UNCHANGED <<job, ppc, outcomes, syncAllVars, lateVars, matchVars, filesVars, treeVars>>

\* The process exits and the operation goes on with its result.
ProcessExits ==
  /\ proc # None
  /\ \E res \in ExitResults :
       /\ outcomes' = Append(outcomes, [cmd |-> proc[1].cmd, result |-> res])
       /\ job' = after_invocation(job, ppc, res).job
       /\ ppc' = after_invocation(job, ppc, res).ppc
  /\ proc' = None
  /\ UNCHANGED <<syncAllVars, lateVars, matchVars, filesVars, treeVars>>

\* subprocess.TimeoutExpired: the process is killed and the operation goes on
\* with the failure or sentinel result of its except clause.
TimeoutExpired ==
  /\ proc # None
  /\ proc[1].timeout # None
  /\ proc[1].elapsed = proc[1].timeout[1]
  /\ outcomes' = Append(outcomes, [cmd |-> proc[1].cmd, result |-> "timeout"])
  /\ job' = after_invocation(job, ppc, "timeout").job
  /\ ppc' = after_invocation(job, ppc, "timeout").ppc
  /\ proc' = None
  /\ UNCHANGED <<syncAllVars, lateVars, matchVars, filesVars, treeVars>>

NextProc ==
  \/ subprocess_run
  \/ subprocess_Popen
  \/ SecondPasses
  \/ ProcessExits
  \/ TimeoutExpired

\* The program runs and time passes; the external process need not exit.
SpecProc ==
  /\ InitProc
  /\ [][NextProc]_vars
  /\ WF_vars(subprocess_run)
  /\ WF_vars(subprocess_Popen)
  /\ WF_vars(SecondPasses)
  /\ WF_vars(TimeoutExpired)

\* C20: every external process invocation (the git queries, the rclone index
\* pull, the rclone staging push) is bounded by a fixed timeout, so a sync
\* run or a hist call returns even when an external process never exits.
C20_EveryOperationReturns == <>(ppc = "done")

\* ---------------------------------------------------------------------------
\* File types (utils/file_utils.py) and the validation FileAnalyzer.
\* analyze_multiple makes of its file list (core/file_analyzer.py).
\* ---------------------------------------------------------------------------

\* The files of one analyze_multiple call.
MaxFiles == 4

\* class FileType: the members by their value.
FileTypes ==
  {"Python", "JavaScript", "TypeScript", "Markdown", "Text", "JSON", "YAML",
   "Shell", "Go", "Rust", "C", "C++", "Unknown"}

\* FileType.is_code, FileType.is_text
is_code(t) ==
  t \in {"Python", "JavaScript", "TypeScript", "Go", "Rust", "C", "C++", "Shell"}
is_text(t) == t \in {"Markdown", "Text"}

\* EXTENSION_MAP: the (extension, type) items.
EXTENSION_MAP ==
  {<<<<".", "p", "y">>, "Python">>, <<<<".", "j", "s">>, "JavaScript">>, <<<<".", "j", "s", "x">>, "JavaScript">>,
   <<<<".", "t", "s">>, "TypeScript">>, <<<<".", "t", "s", "x">>, "TypeScript">>, <<<<".", "m", "d">>, "Markdown">>,
   <<<<".", "t", "x", "t">>, "Text">>, <<<<".", "j", "s", "o", "n">>, "JSON">>, <<<<".", "y", "a", "m", "l">>, "YAML">>, <<<<".", "y", "m", "l">>, "YAML">>,
   <<<<".", "s", "h">>, "Shell">>, <<<<".", "b", "a", "s", "h">>, "Shell">>, <<<<".", "g", "o">>, "Go">>, <<<<".", "r", "s">>, "Rust">>,
   <<<<".", "c">>, "C">>, <<<<".", "h">>, "C">>, <<<<".", "c", "p", "p">>, "C++">>, <<<<".", "h", "p", "p">>, "C++">>,
   <<<<".", "c", "c">>, "C++">>, <<<<".", "c", "x", "x">>, "C++">>}

\* detect_file_type: EXTENSION_MAP.get(Path(file_path).suffix.lower(), UNKNOWN)
detect_file_type(file_path) ==
  LET ext == lower(suffix(file_path)) IN
  IF \E item \in EXTENSION_MAP : item[1] = ext
    THEN (CHOOSE item \in EXTENSION_MAP : item[1] = ext)[2]
    ELSE "Unknown"

\* validate_file_types: (is_valid, error_message); the message lists each
\* file with the value of its type and 'code' or 'text'.
validate_file_types(file_paths) ==
  LET types == [i \in 1..Len(file_paths) |-> detect_file_type(file_paths[i])]
      all_code == \A i \in 1..Len(types) : is_code(types[i])
      all_text == \A i \in 1..Len(types) : is_text(types[i])
  IN IF file_paths = <<>> THEN [is_valid |-> TRUE, error_msg |-> None]
     ELSE IF all_code \/ all_text \/ Cardinality({types[i] : i \in 1..Len(types)}) = 1
       THEN [is_valid |-> TRUE, error_msg |-> None]
     ELSE [is_valid |-> FALSE,
           error_msg |-> Some([i \in 1..Len(types) |->
                            [name |-> file_paths[i], type |-> types[i],
                             kind |-> IF is_code(types[i]) THEN "code" ELSE "text"]])]

\* The fixtures of the tests and two more names.
SampleFiles ==
  {<<"s", "a", "m", "p", "l", "e", ".", "p", "y">>, <<"s", "a", "m", "p", "l", "e", ".", "m", "d">>, <<"s", "a", "m", "p", "l", "e", ".", "y", "a", "m", "l">>, <<"s", "a", "m", "p", "l", "e", ".", "x", "m", "l">>, <<"s", "a", "m", "p", "l", "e", ".", "j", "s">>, <<"N", "O", "T", "E", "S", ".", "T", "X", "T">>}

\* file_specs: (file_path, line_start, line_end) tuples, here of whole files.
FileSpecLists ==
  UNION {[1..n -> {<<f, None, None>> : f \in SampleFiles}] : n \in 0..MaxFiles}

InitTypes ==
  /\ file_specs \in FileSpecLists
  /\ validation = <<>>
  /\ SyncIdle /\ MatchIdle /\ FilesIdle /\ TreeIdle /\ ProcIdle /\ CliIdle /\ CollectIdle /\ LogIdle

\* analyze_multiple lines 88-91: the paths of the specs are validated.
Validate ==
  /\ validation = <<>>
  /\ LET file_paths == [i \in 1..Len(file_specs) |-> file_specs[i][1]] IN
       validation' = <<validate_file_types(file_paths), "validated">>
  /\ UNCHANGED <<file_specs, syncAllVars, baseToolVars, cliVars, collectVars, logVars>>

\* lines 92-93: raise ValueError(error_msg)
RaiseValueError ==
  /\ Len(validation) = 2 /\ validation[2] = "validated"
  /\ ~validation[1].is_valid
  /\ validation' = <<validation[1], "ValueError">>
  /\ UNCHANGED <<file_specs, syncAllVars, baseToolVars, cliVars, collectVars, logVars>>

\* lines 95-107: the files are analyzed one by one.
AnalyzeEach ==
  /\ Len(validation) = 2 /\ validation[2] = "validated"
  /\ validation[1].is_valid
  /\ validation' = <<validation[1], "analyzed">>
  /\ UNCHANGED <<file_specs, syncAllVars, baseToolVars, cliVars, collectVars, logVars>>

NextTypes ==
  \/ Validate
  \/ RaiseValueError
  \/ AnalyzeEach

SpecTypes == InitTypes /\ [][NextTypes]_vars

\* A list that mixes code files with text or other files.
IsMixedList ==
  LET types == [i \in 1..Len(file_specs) |-> detect_file_type(file_specs[i][1])] IN
  /\ \E i \in 1..Len(types) : is_code(types[i])
  /\ \E i \in 1..Len(types) : ~is_code(types[i])

\* C21: validate_file_types accepts mixed file types: for a list that mixes
\* code files and text or other files it returns (True, None), and
\* analyze_multiple does not reject the list.
C21_MixedTypesAccepted ==
  (validation # <<>> /\ IsMixedList) =>
    /\ validation[1] = [is_valid |-> TRUE, error_msg |-> None]
    /\ validation[2] # "ValueError"

\* ---------------------------------------------------------------------------
\* cli.py: the hist and grep commands, from the parsed arguments on.  The
\* commands run on the directory tree of the file finder, with the search
\* roots /q and /r configured.
\* ---------------------------------------------------------------------------

\* str(path) of an absolute or a relative path.
path_str(parts) ==
  IF parts # <<>> /\ parts[1] = Slash THEN <<"/">> \o JoinPath(Tail(parts))
  ELSE JoinPath(parts)

\* a in b, of two strings
IsSubstring(a, b) ==
  \E i \in 0..(Len(b) - Len(a)) : SubSeq(b, i + 1, i + Len(a)) = a

\* A check of the directory that forgets the is_dir test.
directory_error_if_missing(dir_path) ==
  IF ~(is_dir(dir_path) \/ is_file(dir_path)) THEN Some("Directory not found") ELSE None

\* The directory checks of handle_hist (361-367) and handle_grep (235-241):
\* the error displayed, None when the directory can be searched.
directory_error(dir_path) ==
  IF ~(is_dir(dir_path) \/ is_file(dir_path)) THEN Some("Directory not found")
  ELSE IF ~is_dir(dir_path) THEN Some("Not a directory")
  ELSE None

\* FileFinder.find_files("*", content_search=term) on the configured roots:
\* the matches of every root whose text holds the term, sorted.
RECURSIVE grep_roots(_, _, _, _)
grep_roots(files, search_dirs, holding, i) ==
  IF i > Len(search_dirs) THEN <<>>
  ELSE (IF is_dir(search_dirs[i].path)
          THEN SelectSeq(search_directory(files, search_dirs[i].path, <<"*">>,
                                          search_dirs[i].priority,
                                          search_dirs[i].recursive,
                                          search_dirs[i].exclude),
                         LAMBDA m : m.path \in holding)
          ELSE <<>>)
       \o grep_roots(files, search_dirs, holding, i + 1)
find_files_with_content(files, holding) ==
  sort_by_priority(grep_roots(files, sorted_search_dirs(DefaultConfig), holding, 1))

CliDirectories ==
  {<<Slash>>, <<Slash, N_r>>, <<Slash, N_r, N_s>>, <<Slash, N_q>>, <<Slash, N_zz>>,
   <<Slash, N_r, N_a_py>>, <<Slash, N_r, N_node_modules>>}
\* The files whose text holds the search term.
Holdings ==
  {{}, {<<Slash, N_r, N_a_py>>}, {<<Slash, N_q, N_d_py>>},
   {<<Slash, N_r, N_s, N_c_md>>, <<Slash, N_q, N_d_py>>},
   {<<Slash, N_r, N_node_modules, N_x_js>>}}

HistCommand(directory, count, filetypes) ==
  [cmd |-> "hist", directory |-> directory, count |-> count, filetypes |-> filetypes,
   holding |-> {}]
GrepCommand(directory, holding) ==
  [cmd |-> "grep", directory |-> directory, count |-> 0, filetypes |-> None,
   holding |-> holding]
Commands ==
  {HistCommand(d, n, ft) : d \in CliDirectories, n \in 0..MaxCount,
                           ft \in {None, Some(<<<<"m", "d">>>>), Some(<<<<"g", "o">>>>)}}
  \cup {GrepCommand(d, h) : d \in CliDirectories, h \in Holdings}

InitCli ==
  /\ argv \in Commands
  /\ fs \in FsStates
  /\ cpc = "check"
  /\ exit_code = None
  /\ visited = <<>>
  /\ reported = <<>>
  /\ call = <<>> /\ fpc = "idle" /\ rootIdx = 0 /\ matches = <<>>
  /\ searched = <<>> /\ returned = <<>>
  /\ SyncIdle /\ MatchIdle /\ TreeIdle /\ ProcIdle /\ TypesIdle /\ CollectIdle /\ LogIdle

\* display_error(...); return 1
RejectDirectory ==
  /\ cpc = "check"
  /\ directory_error(argv.directory) # None
  /\ exit_code' = Some(1)
  /\ cpc' = "done"
  /\ UNCHANGED <<argv, visited, reported, syncAllVars, baseToolVars, typesVars, collectVars, logVars>>

\* The directory exists and is a directory: the handler goes on.
AcceptDirectory ==
  /\ cpc = "check"
  /\ directory_error(argv.directory) = None
  /\ cpc' = "find"
  /\ UNCHANGED <<argv, exit_code, visited, reported, syncAllVars, baseToolVars, typesVars, collectVars, logVars>>

\* handle_hist 370-377: HistoryFinder().find_recent(dir_path, count, filetypes)
HistFind ==
  /\ cpc = "find" /\ argv.cmd = "hist"
  /\ visited' = <<argv.directory>>
  /\ reported' = find_recent(fs, argv.directory, argv.count, argv.filetypes)
  /\ cpc' = "report"
  /\ UNCHANGED <<argv, exit_code, syncAllVars, baseToolVars, typesVars, collectVars, logVars>>

\* handle_grep 244-248: FileFinder().find_files("*", content_search=term),
\* then the matches whose path holds str(dir_path).
GrepFind ==
  /\ cpc = "find" /\ argv.cmd = "grep"
  /\ visited' = LET roots == sorted_search_dirs(DefaultConfig)
                    dirs == [i \in 1..Len(roots) |-> roots[i].path]
                IN SelectSeq(dirs, is_dir)
  /\ reported' = SelectSeq(find_files_with_content(fs, argv.holding),
                           LAMBDA m : IsSubstring(path_str(argv.directory), path_str(m.path)))
  /\ cpc' = "report"
  /\ UNCHANGED <<argv, exit_code, syncAllVars, baseToolVars, typesVars, collectVars, logVars>>

\* return 0 if entries (matches) else 1
Report ==
  /\ cpc = "report"
  /\ exit_code' = Some(IF reported # <<>> THEN 0 ELSE 1)
  /\ cpc' = "done"
  /\ UNCHANGED <<argv, visited, reported, syncAllVars, baseToolVars, typesVars, collectVars, logVars>>

NextCli ==
  \/ RejectDirectory
  \/ AcceptDirectory
  \/ HistFind
  \/ GrepFind
  \/ Report

SpecCli == InitCli /\ [][NextCli]_vars

\* C22: hist and grep validate the directory before any traversal: when the
\* directory does not exist or is not a directory the command returns exit
\* code 1 with no directory walked and nothing reported; otherwise the exit
\* code is 0 exactly when at least one entry or match is reported.
C22_DirectoryCheckedFirst ==
  /\ (visited # <<>> \/ reported # <<>>) => is_dir(argv.directory)
  /\ cpc = "done" =>
       IF is_dir(argv.directory)
         THEN exit_code = Some(IF reported # <<>> THEN 0 ELSE 1)
         ELSE exit_code = Some(1) /\ visited = <<>> /\ reported = <<>>

\* C22 witness: hist on the path of a file has returned 1 without a walk.
C22_Witness ==
  /\ cpc = "done"
  /\ argv.cmd = "hist"
  /\ argv.directory = <<Slash, N_r, N_a_py>>
  /\ exit_code = Some(1)
  /\ visited = <<>>

\* ---------------------------------------------------------------------------
\* The result of the traversal of the conversation tree (SpecTree), stated
\* from the pointers of the mapping.
\* ---------------------------------------------------------------------------
TraversalReturned == tpc \in {"done", "extracted"}
MappingKeys == {mapping[i].key : i \in 1..Len(mapping)}
NodeOf(k) == mapping_get(mapping, k)[1]
\* The node has a message that is not hidden from the conversation.
HasShownMessage(k) ==
  /\ NodeOf(k).message # None
  /\ ~NodeOf(k).message[1].is_visually_hidden_from_conversation

\* The nodes reached from a set of nodes by at most n steps of a pointer.
RECURSIVE Reached(_, _, _)
Reached(nodes, Next1(_), n) ==
  IF n = 0 THEN nodes
  ELSE Reached(nodes \cup ({Next1(k)[1] : k \in {x \in nodes : Next1(x) # None}}
                            \cap MappingKeys),
               Next1, n - 1)
ParentPointer(k) == NodeOf(k).parent
LastChildPointer(k) ==
  IF NodeOf(k).children = <<>> THEN None
  ELSE Some(NodeOf(k).children[Len(NodeOf(k).children)])
\* The node and the nodes above it; the node and the nodes under it along
\* the last children.
ParentChain(k) == Reached({k} \cap MappingKeys, ParentPointer, Len(mapping))
LastChildPath(k) == Reached({k} \cap MappingKeys, LastChildPointer, Len(mapping))
Emitted == {raw_messages[i] : i \in 1..Len(raw_messages)}

\* C23: with a current leaf the traversal returns the messages (those not
\* hidden) of exactly the nodes on the parent chain of the leaf, the root's
\* first and the leaf's last, and none of a node of another branch; a leaf
\* that is no key of the mapping gives the empty list.
C23_LeafToRootChain ==
  (TraversalReturned /\ current_node # None) =>
    /\ Emitted = {k \in ParentChain(current_node[1]) : HasShownMessage(k)}
    /\ \A i, j \in 1..Len(raw_messages) :
         i < j => /\ raw_messages[i] # raw_messages[j]
                  /\ raw_messages[i] \in ParentChain(raw_messages[j])
    /\ current_node[1] \notin MappingKeys => raw_messages = <<>>

\* C23 witness: from leaf b under a, whose other child is not in the chain,
\* the messages of a and b in this order.
C23_Witness ==
  /\ tpc = "done"
  /\ current_node = Some("b")
  /\ raw_messages = <<"a", "b">>
  /\ mapping[1].children = <<"b", "z">>

\* C24: without a current leaf the traversal follows one path from the
\* first root, at every node with children the last child only: it returns
\* the messages of the nodes on that path in path order, and none of an
\* earlier sibling.
C24_LastChildPath ==
  (TraversalReturned /\ current_node = None /\ root_nodes(mapping) # <<>>) =>
    /\ Emitted = {k \in LastChildPath(root_nodes(mapping)[1]) : HasShownMessage(k)}
    /\ \A i, j \in 1..Len(raw_messages) :
         i < j => /\ raw_messages[i] # raw_messages[j]
                  /\ raw_messages[j] \in LastChildPath(raw_messages[i])

\* C24 witness: root a with the children z (absent) and b: a, then b.
C24_Witness ==
  /\ tpc = "done"
  /\ current_node = None
  /\ mapping[1].children = <<"z", "b">>
  /\ raw_messages = <<"a", "b">>

\* C25: without a current leaf a node is a root when it has no parent or
\* its parent is no key of the mapping; a mapping whose nodes all have a
\* message to show and which has such a root yields messages.
C25_RootWithParentOutside ==
  (/\ TraversalReturned /\ current_node = None
   /\ \A k \in MappingKeys : HasShownMessage(k)
   /\ \E k \in MappingKeys :
        NodeOf(k).parent = None \/ NodeOf(k).parent[1] \notin MappingKeys)
    => raw_messages # <<>>

\* C26: every message of the normalized list comes from a node whose
\* message is not hidden and has at least one non-empty part.
C26_OnlyShownMessagesWithContent ==
  tpc = "extracted" =>
    \A i \in 1..Len(extracted) :
      /\ HasShownMessage(extracted[i].id)
      /\ \E p \in 1..Len(NodeOf(extracted[i].id).message[1].parts) :
           NodeOf(extracted[i].id).message[1].parts[p] # <<>>

(***************************************************************************)
(* index.py: a sequence of Index.merge calls for one canonical id, each    *)
(* recorded with the entry it met, the MergeResult returned and the entry  *)
(* stored after it.                                                        *)
(***************************************************************************)
MaxMerges == 4

\* The versions of the conversation: three message lists at every time.
VersionMessages == {<<UserMsg>>, <<AsstMsg>>, <<UserMsg, AsstMsg>>}
Versions ==
  {Conversation(MainIdentity[1], MainIdentity[2], u, 0, ms, Some("Chat")) :
     u \in Times, ms \in VersionMessages}

\* index.py lines 64-100, with the value of self.entries.get(conv.id) kept
MergeLogged(conv) ==
  /\ Len(merge_log) < MaxMerges
  /\ Merge(conv, raw_path_of(conv))
  /\ merge_log' =
       Append(merge_log,
              [conv |-> conv,
               existing |-> IF conv.id \in DOMAIN entries
                              THEN Some(entries[conv.id]) ELSE None,
               result |-> merge(entries, conv, raw_path_of(conv)).result,
               stored |-> merge(entries, conv, raw_path_of(conv)).entries[conv.id]])
  /\ UNCHANGED <<fileVars, syncVars, baseToolVars, typesVars, cliVars, collectVars>>

NextMerges == \E conv \in Versions : MergeLogged(conv)

SpecMerges == Init /\ [][NextMerges]_vars

\* The call met an entry that is strictly newer, has no fewer messages and
\* another content hash than the incoming conversation.
OlderWithOtherContent(c) ==
  /\ c.existing # None
  /\ c.conv.updated_at < c.existing[1].updated_at
  /\ Len(c.conv.messages) <= c.existing[1].message_count
  /\ sha256_prefix(json_dumps(c.conv.messages)) # c.existing[1].content_hash

\* The calls merge two versions of different content in turn.
Alternates(calls) ==
  /\ Len(calls) >= 2
  /\ sha256_prefix(json_dumps(calls[1].conv.messages))
       # sha256_prefix(json_dumps(calls[2].conv.messages))
  /\ \A i \in 3..Len(calls) : calls[i].conv = calls[i - 2].conv

\* C27: a merge that meets an entry with a strictly newer updated_at, no
\* fewer messages and another content hash returns "updated" with the
\* reason "content changed" and stores the incoming version, whose
\* updated_at is smaller than the one stored before; and when two versions
\* of different content are merged in turn, every merge after the first
\* returns "updated".
C27_OlderVersionReplaces ==
  /\ \A i \in 1..Len(merge_log) :
       OlderWithOtherContent(merge_log[i]) =>
         /\ merge_log[i].result.action = "updated"
         /\ merge_log[i].result.reason = Reason(<<Part("content changed", <<>>)>>)
         /\ merge_log[i].stored.updated_at = merge_log[i].conv.updated_at
         /\ merge_log[i].stored.updated_at < merge_log[i].existing[1].updated_at
         /\ i = Len(merge_log) => entries[merge_log[i].conv.id] = merge_log[i].stored
  /\ Alternates(merge_log) =>
       \A i \in 2..Len(merge_log) : merge_log[i].result.action = "updated"

\* C27 witness: four merges of two versions in turn, the second version
\* older than the first and with fewer messages; the stored updated_at has
\* gone down twice.
C27_Witness ==
  /\ Len(merge_log) = 4
  /\ Alternates(merge_log)
  /\ OlderWithOtherContent(merge_log[2])
  /\ OlderWithOtherContent(merge_log[4])
  /\ merge_log[4].result.action = "updated"
  /\ entries[merge_log[4].conv.id].updated_at < merge_log[3].stored.updated_at

\* ---------------------------------------------------------------------------
\* The shape of Index.entries over loads and merges (SpecPersist).
\* ---------------------------------------------------------------------------
\* Every key is the id of its entry; keys being the domain of a mapping, no
\* two entries then share an id.
KeysAreIds ==
  /\ \A k \in DOMAIN entries : entries[k].id = k
  /\ \A j, k \in DOMAIN entries : entries[j].id = entries[k].id => j = k

\* After "added" or "updated" the entry of the id holds the fields of the
\* conversation merged and the raw_path given.
StoredAsGiven ==
  (lastCall.called /\ result.action \in {"added", "updated"}) =>
    /\ lastCall.conv.id \in DOMAIN entries
    /\ LET e == entries[lastCall.conv.id]
           c == lastCall.conv
       IN /\ e.source = c.source
          /\ e.native_id = c.native_id
          /\ e.updated_at = c.updated_at
          /\ e.created_at = c.created_at
          /\ e.title = c.title
          /\ e.message_count = Len(c.messages)
          /\ e.content_hash = sha256_prefix(json_dumps(c.messages))
          /\ e.raw_path = lastCall.raw_path

\* A step that ends in a state with a merge as the last call of the process
\* keeps every key of the index.
MergeKeepsEntries == lastCall'.called => DOMAIN entries \subseteq DOMAIN entries'

\* C28: over every sequence of loads, merges and saves, each key of the
\* index is the id of its entry and no two entries share an id; a merge
\* removes no entry; and after a merge that returned "added" or "updated"
\* the stored entry has the source, native_id, updated_at, created_at,
\* title, message_count and content_hash of the incoming conversation and
\* the raw_path of the call.
C28_IndexKeyedById ==
  /\ [](KeysAreIds /\ StoredAsGiven)
  /\ [][MergeKeepsEntries]_vars

\* C28 witness: an index read back from its file, holding two ids, after a
\* merge that updated one of them.
C28_Witness ==
  /\ indexFile.exists
  /\ load(indexFile).entries # EmptyIndex
  /\ Cardinality(DOMAIN entries) = 2
  /\ lastCall.called
  /\ result.action = "updated"
  /\ entries[lastCall.conv.id] = from_conversation(lastCall.conv, lastCall.raw_path)

(***************************************************************************)
(* sync.py: the runs of run_sync that write (dry_run is off), over export  *)
(* lists that may carry one conversation id twice.                         *)
(***************************************************************************)
RepeatKinds == {"ok", "untitled", "malformed", "repeat"}

InitResync ==
  /\ entries = EmptyIndex
  /\ result = NoResult
  /\ lastCall = NoCall
  /\ indexFile \in LocalIndexes
  /\ fileBefore = indexFile
  /\ savePc = "idle"
  /\ run \in {[dry_run |-> FALSE, push |-> p, cloud_enabled |-> p] : p \in BOOLEAN}
  /\ exports \in [1..Len(SourceNames) -> [1..MaxRecords -> RepeatKinds]]
  /\ pc = "pull"
  /\ cur = [c |-> 1, i |-> 1]
  /\ convFiles = EmptyIndex
  /\ rawArchive = EmptyIndex
  /\ remoteIndex \in RemoteIndexes
  /\ mergedIds = {}
  /\ errors = 0
  /\ MatchIdle /\ FilesIdle /\ TreeIdle /\ ProcIdle /\ LateIdle

SpecResync == InitResync /\ [][NextSync]_vars

\* The entry of the id points to logs/{source}/{native_id}.json, and the
\* conversation file there is of this id, with the hash and the message
\* count of the entry.
EntryMatchesFile(ents, id) ==
  /\ id \in DOMAIN ents
  /\ ents[id].raw_path = <<"logs/", ents[id].source, "/", ents[id].native_id, ".json">>
  /\ ents[id].raw_path \in DOMAIN convFiles
  /\ convFiles[ents[id].raw_path].id = id
  /\ convFiles[ents[id].raw_path].content_hash = ents[id].content_hash
  /\ convFiles[ents[id].raw_path].message_count = ents[id].message_count

\* C29: when a run that is not dry has ended, every id a collector yielded
\* has an entry in the index, in memory and in the saved file, whose
\* raw_path is logs/{source}/{native_id}.json and whose content_hash and
\* message_count are those of the conversation file at that path; the file
\* of the conversation yielded last is the one written from it.
C29_IndexMatchesFiles ==
  (pc = "done" /\ ~run.dry_run) =>
    /\ \A id \in mergedIds :
         /\ EntryMatchesFile(entries, id)
         /\ EntryMatchesFile(load(indexFile).entries, id)
    /\ lastCall.called =>
         convFiles[lastCall.raw_path] = Conversation_to_dict(lastCall.conv)

\* C29 witness: a finished run in which one id was yielded twice with
\* different messages, the second time as the last record of the run.
C29_Witness ==
  /\ pc = "done"
  /\ ~run.dry_run
  /\ exports[2][1] = "ok"
  /\ exports[2][2] = "repeat"
  /\ result.action = "updated"
  /\ lastCall.conv.messages = <<AsstMsg>>
  /\ entries[lastCall.conv.id].content_hash = sha256_prefix(json_dumps(<<AsstMsg>>))

(***************************************************************************)
(* collectors/claude_code.py: ClaudeCodeCollector.collect groups the       *)
(* session files by session id, merges the messages of each group and      *)
(* yields one Conversation per group.  A timestamp is a datetime that is   *)
(* timezone-aware (parsed from an ISO string with an offset or "Z") or     *)
(* naive (parsed from a number of milliseconds), or is missing.            *)
(***************************************************************************)
MaxFragment == 2

Naive(t) == Some([aware |-> FALSE, t |-> t])
Aware(t) == Some([aware |-> TRUE, t |-> t])
SessionStamps == {None, Naive(0), Naive(1), Aware(1)}
SessionMessages ==
  {[role |-> rc[1], content |-> rc[2], timestamp |-> ts] :
     rc \in {<<"user", "q">>, <<"assistant", "r">>}, ts \in SessionStamps}
Fragments == UNION {[1..n -> SessionMessages] : n \in 0..MaxFragment}
SessionIds == {"s", "t"}
SessionFiles == [session_id : SessionIds, messages : Fragments]

\* msg.timestamp.isoformat() if msg.timestamp else "None" (line 178): the
\* offset is part of the text of an aware datetime.
timestamp_str(ts) ==
  IF ts = None THEN <<"None">>
  ELSE IF ts[1].aware THEN <<ToString(ts[1].t), "+00:00">>
  ELSE <<ToString(ts[1].t)>>

\* line 179: key = (ts_str, msg.role, hash(msg.content)); the hash is taken
\* to tell the contents apart.
message_key(msg) == <<timestamp_str(msg.timestamp), msg.role, msg.content>>

\* lines 175-182: the values of unique_msgs in insertion order, which are
\* the first messages of their keys.
unique_values(msgs) ==
  LET firsts == {i \in 1..Len(msgs) :
                   \A j \in 1..(i - 1) : message_key(msgs[j]) # message_key(msgs[i])}
      RECURSIVE pick(_)
      pick(i) == IF i > Len(msgs) THEN <<>>
                 ELSE (IF i \in firsts THEN <<msgs[i]>> ELSE <<>>) \o pick(i + 1)
  IN pick(1)

\* line 187: m.timestamp or datetime.min, and datetime.min is naive.
sort_key(msg) ==
  IF msg.timestamp = None THEN [aware |-> FALSE, t |-> -1] ELSE msg.timestamp[1]

\* datetime.__lt__ raises TypeError between a naive and an aware datetime;
\* sorting compares across the two kinds as soon as both are in the list.
comparison_raises(msgs) ==
  \E i, j \in 1..Len(msgs) : sort_key(msgs[i]).aware /\ ~sort_key(msgs[j]).aware

\* sorted(..., key=...): stable, by insertion from the right.
RECURSIVE sorted_by_timestamp(_)
sorted_by_timestamp(msgs) ==
  IF msgs = <<>> THEN <<>>
  ELSE LET rest == sorted_by_timestamp(Tail(msgs))
           before == SelectSeq(rest, LAMBDA m : sort_key(m).t < sort_key(msgs[1]).t)
           after == SelectSeq(rest, LAMBDA m : sort_key(m).t >= sort_key(msgs[1]).t)
       IN before \o <<msgs[1]>> \o after

\* _deduplicate_messages: the list returned, or the TypeError of the sort.
deduplicate_messages(msgs) ==
  IF comparison_raises(unique_values(msgs))
    THEN [raised |-> TRUE, value |-> <<>>]
    ELSE [raised |-> FALSE, value |-> sorted_by_timestamp(unique_values(msgs))]

\* lines 28-45: session_groups in the order the session ids are first met
group_by_session(files) ==
  LET firsts == {i \in 1..Len(files) :
                   \A j \in 1..(i - 1) : files[j].session_id # files[i].session_id}
      members(sid) ==
        SelectSeq(files, LAMBDA f : f.session_id = sid)
      RECURSIVE groups(_)
      groups(i) ==
        IF i > Len(files) THEN <<>>
        ELSE (IF i \in firsts
                THEN <<[session_id |-> files[i].session_id,
                        files |-> members(files[i].session_id)]>>
                ELSE <<>>) \o groups(i + 1)
  IN groups(1)

\* lines 55-70: all_messages of a group
RECURSIVE all_messages(_)
all_messages(files) ==
  IF files = <<>> THEN <<>> ELSE files[1].messages \o all_messages(Tail(files))

InitCollect ==
  /\ jsonl_files \in [1..2 -> SessionFiles]
  /\ kpc = "scan"
  /\ session_groups = <<>>
  /\ yielded = <<>>
  /\ dedups = <<>>
  /\ SyncIdle
  /\ MatchIdle /\ FilesIdle /\ TreeIdle /\ ProcIdle
  /\ TypesIdle /\ CliIdle /\ LogIdle

\* lines 30-45
ScanFiles ==
  /\ kpc = "scan"
  /\ session_groups' = group_by_session(jsonl_files)
  /\ kpc' = "process"
  /\ UNCHANGED <<jsonl_files, yielded, dedups, syncAllVars, baseToolVars, typesVars, cliVars, logVars>>

\* lines 72-73: a group without messages is passed over
GroupWithoutMessages ==
  /\ kpc = "process"
  /\ session_groups # <<>>
  /\ all_messages(session_groups[1].files) = <<>>
  /\ session_groups' = Tail(session_groups)
  /\ UNCHANGED <<jsonl_files, kpc, yielded, dedups, syncAllVars, baseToolVars, typesVars, cliVars, logVars>>

\* lines 76-103: the messages are deduplicated and the Conversation yielded
GroupYielded ==
  /\ kpc = "process"
  /\ session_groups # <<>>
  /\ LET msgs == all_messages(session_groups[1].files)
         d == deduplicate_messages(msgs)
     IN /\ msgs # <<>>
        /\ ~d.raised
        /\ dedups' = Append(dedups, [input |-> msgs, raised |-> FALSE, value |-> d.value])
        /\ yielded' = Append(yielded, [native_id |-> session_groups[1].session_id,
                                       messages |-> d.value])
  /\ session_groups' = Tail(session_groups)
  /\ UNCHANGED <<jsonl_files, kpc, syncAllVars, baseToolVars, typesVars, cliVars, logVars>>

\* lines 76 and 105-107: the exception of _deduplicate_messages is caught,
\* a warning printed, and the session left out
GroupFails ==
  /\ kpc = "process"
  /\ session_groups # <<>>
  /\ LET msgs == all_messages(session_groups[1].files)
         d == deduplicate_messages(msgs)
     IN /\ msgs # <<>>
        /\ d.raised
        /\ dedups' = Append(dedups, [input |-> msgs, raised |-> TRUE, value |-> <<>>])
  /\ session_groups' = Tail(session_groups)
  /\ UNCHANGED <<jsonl_files, kpc, yielded, syncAllVars, baseToolVars, typesVars, cliVars, logVars>>

\* line 48: the loop over the groups ends
CollectReturns ==
  /\ kpc = "process"
  /\ session_groups = <<>>
  /\ kpc' = "done"
  /\ UNCHANGED <<jsonl_files, session_groups, yielded, dedups, syncAllVars, baseToolVars, typesVars, cliVars, logVars>>

NextCollect ==
  \/ ScanFiles
  \/ GroupWithoutMessages
  \/ GroupYielded
  \/ GroupFails
  \/ CollectReturns

SpecCollect == InitCollect /\ [][NextCollect]_vars

\* The keys of a list, and whether the list is in timestamp order with the
\* messages that lack a timestamp first.
KeysOf(msgs) == {message_key(msgs[i]) : i \in 1..Len(msgs)}
FirstOfKey(msgs, key) ==
  msgs[CHOOSE i \in 1..Len(msgs) :
         /\ message_key(msgs[i]) = key
         /\ \A j \in 1..(i - 1) : message_key(msgs[j]) # key]
InTimestampOrder(msgs) ==
  \A i, j \in 1..Len(msgs) :
    i < j => /\ msgs[j].timestamp = None => msgs[i].timestamp = None
             /\ (msgs[i].timestamp # None /\ msgs[j].timestamp # None)
                  => msgs[i].timestamp[1].t <= msgs[j].timestamp[1].t

\* C30: collect yields at most one Conversation per session id, and every
\* call of _deduplicate_messages returns one message, the first, for each
\* key of its input, in timestamp order with the messages lacking a
\* timestamp first, a list it maps to itself.
C30_MergedWithoutDuplicates ==
  /\ \A i, j \in 1..Len(yielded) :
       yielded[i].native_id = yielded[j].native_id => i = j
  /\ \A c \in 1..Len(dedups) :
       /\ ~dedups[c].raised
       /\ Len(dedups[c].value) = Cardinality(KeysOf(dedups[c].input))
       /\ \A i \in 1..Len(dedups[c].value) :
            dedups[c].value[i] = FirstOfKey(dedups[c].input, message_key(dedups[c].value[i]))
       /\ KeysOf(dedups[c].value) = KeysOf(dedups[c].input)
       /\ InTimestampOrder(dedups[c].value)
       /\ deduplicate_messages(dedups[c].value) = [raised |-> FALSE, value |-> dedups[c].value]

=============================================================================
